---- MODULE Spec2Model ----
(***************************************************************************)
(* Model of pdf_to_speech: the LaTeX structure parser (latex.py) and the   *)
(* PDF paragraph normaliser (extract.py).                                  *)
(*                                                                         *)
(* LaTeX text is modelled at lexeme level: a text is a sequence of tokens, *)
(* one token per lexeme the parser's regular expressions tell apart (a     *)
(* prose word, a blank line, a command, "\begin{name}", a brace, ...).     *)
(* Positions are 0-based indices into that sequence, as in the code.       *)
(* Lexemes are taken to be separated by single blanks, except that a       *)
(* command's "[" or "{" follows it (or a closing "]") directly.            *)
(*                                                                         *)
(* PDF text is modelled at character level: a line or paragraph is a       *)
(* sequence of one-character strings.                                      *)
(***************************************************************************)
EXTENDS Integers, Sequences, FiniteSets, TLC

(***************************************************************************)
(* Bounds of the input families.                                           *)
(***************************************************************************)
MaxLen == 4
MaxCtx == 1
WordLen == 12
MaxLines == 3
MaxBlocks == 5
MaxCount == 8

(***************************************************************************)
(* Generic helpers.                                                        *)
(***************************************************************************)
Min(S) == CHOOSE x \in S : \A y \in S : x <= y

Max(S) == CHOOSE x \in S : \A y \in S : x >= y

\* text[a:b] of Python, 0-based, on a sequence
Slice(s, a, b) == SubSeq(s, a + 1, b)

RECURSIVE Flatten(_)
Flatten(ss) == IF ss = <<>> THEN <<>> ELSE Head(ss) \o Flatten(Tail(ss))

RECURSIVE SumSeq(_)
SumSeq(s) == IF s = <<>> THEN 0 ELSE Head(s) + SumSeq(Tail(s))

(***************************************************************************)
(* Tokens.                                                                 *)
(***************************************************************************)
Tok(k, name, id) == [k |-> k, name |-> name, id |-> id]

Word(i) == Tok("word", "", i)
Par == Tok("par", "", 0)
Cmd(name) == Tok("heading", name, 0)
AppendixTok == Tok("appendix", "\\appendix", 0)
AppendixUpper == Tok("appendix", "\\Appendix", 0)
MaketitleTok == Tok("maketitle", "\\maketitle", 0)
Begin(name) == Tok("begin", name, 0)
End(name) == Tok("end", name, 0)
LBrace == Tok("lbrace", "", 0)
RBrace == Tok("rbrace", "", 0)
LBrack == Tok("lbrack", "", 0)
RBrack == Tok("rbrack", "", 0)
Item == Tok("item", "", 0)
Input(name) == Tok("input", name, 0)
Comment == Tok("comment", "", 0)
Caption == Tok("caption", "", 0)
TitleCmd == Tok("title", "", 0)
Amp == Tok("amp", "", 0)
RowSep == Tok("rowsep", "", 0)
Rule == Tok("rule", "", 0)
Lit(name) == Tok("lit", name, 0)

(***************************************************************************)
(* Step 1 - preprocessing.                                                 *)
(***************************************************************************)
_strip_comments(text) == SelectSeq(text, LAMBDA t : t.k # "comment")

\* The project folder: the files an \input can name, by file name.
\* intro is plain, outer includes intro, loop includes itself, ping and pong
\* include each other.
Files ==
    [intro |-> <<Word(101)>>,
     outer |-> <<Word(102), Input("intro")>>,
     loop |-> <<Word(103), Input("loop")>>,
     ping |-> <<Word(104), Input("pong")>>,
     pong |-> <<Input("ping")>>]

\* Depth of nested inclusion the interpreter's call stack allows.
IncludeDepth == 3

\* The expanded text; nested deeper than fuel, the expansion does not return
\* (RecursionError), which ExpandFails tells.
RECURSIVE _expand_includes(_, _, _)
_expand_includes(text, files, fuel) ==
    IF text = <<>> THEN <<>>
    ELSE IF Head(text).k # "input"
         THEN <<Head(text)>> \o _expand_includes(Tail(text), files, fuel)
         ELSE IF Head(text).name \in DOMAIN files /\ fuel > 0
              THEN _expand_includes(_strip_comments(files[Head(text).name]),
                                    files, fuel - 1)
                   \o _expand_includes(Tail(text), files, fuel)
              ELSE _expand_includes(Tail(text), files, fuel)

RECURSIVE ExpandFails(_, _, _)
ExpandFails(text, files, fuel) ==
    \E i \in 1..Len(text) :
        /\ text[i].k = "input"
        /\ text[i].name \in DOMAIN files
        /\ \/ fuel = 0
           \/ ExpandFails(_strip_comments(files[text[i].name]), files, fuel - 1)

(***************************************************************************)
(* Step 2 - brace and bracket helpers.                                     *)
(***************************************************************************)
RECURSIVE BraceScan(_, _, _, _)
BraceScan(text, pos, i, depth) ==
    IF i >= Len(text) THEN [content |-> Slice(text, pos + 1, Len(text)),
                            pos |-> Len(text)]
    ELSE LET ch == text[i + 1]
         IN IF ch.k = "lbrace" THEN BraceScan(text, pos, i + 1, depth + 1)
            ELSE IF ch.k = "rbrace"
                 THEN IF depth - 1 = 0
                      THEN [content |-> Slice(text, pos + 1, i), pos |-> i + 1]
                      ELSE BraceScan(text, pos, i + 1, depth - 1)
                 ELSE BraceScan(text, pos, i + 1, depth)

_extract_braced(text, pos) ==
    IF pos >= Len(text) \/ text[pos + 1].k # "lbrace"
    THEN [content |-> <<>>, pos |-> pos]
    ELSE BraceScan(text, pos, pos, 0)


\* _extract_braced on a string, a sequence of characters: the scan of the
\* loop from index i at this depth; the character after a backslash is
\* stepped over
RECURSIVE CharScan(_, _, _, _)
CharScan(text, pos, i, depth) ==
    IF i >= Len(text) THEN [content |-> Slice(text, pos + 1, Len(text)),
                            pos |-> Len(text)]
    ELSE LET ch == text[i + 1]
         IN IF ch = "\\" THEN CharScan(text, pos, i + 2, depth)
            ELSE IF ch = "{" THEN CharScan(text, pos, i + 1, depth + 1)
            ELSE IF ch = "}"
                 THEN IF depth - 1 = 0
                      THEN [content |-> Slice(text, pos + 1, i), pos |-> i + 1]
                      ELSE CharScan(text, pos, i + 1, depth - 1)
                 ELSE CharScan(text, pos, i + 1, depth)

\* the content up to the first closing brace, escaped or nested or not
ExtractToFirstClose(text, pos) ==
    LET C == {i \in (pos + 1)..(Len(text) - 1) : text[i + 1] = "}"}
    IN  IF pos >= Len(text) \/ text[pos + 1] # "{"
        THEN [content |-> <<>>, pos |-> pos]
        ELSE IF C = {}
             THEN [content |-> Slice(text, pos + 1, Len(text)),
                   pos |-> Len(text)]
             ELSE [content |-> Slice(text, pos + 1, Min(C)), pos |-> Min(C) + 1]

_extract_braced_str(text, pos) ==
    IF pos >= Len(text) \/ text[pos + 1] # "{"
    THEN [content |-> <<>>, pos |-> pos]
    ELSE CharScan(text, pos, pos, 0)

_skip_optional_arg(text, pos) ==
    LET n == Len(text)
        NonWs == {j \in pos..(n - 1) : text[j + 1].k # "par"}
        i == IF NonWs = {} THEN n ELSE Min(NonWs)
    IN IF i < n /\ text[i + 1].k = "lbrack"
       THEN LET Close == {j \in i..(n - 1) : text[j + 1].k = "rbrack"}
            IN IF Close = {} THEN pos ELSE Min(Close) + 1
       ELSE pos

(***************************************************************************)
(* Step 3 - environment extraction.                                        *)
(***************************************************************************)
\* name.rstrip("*")
StripStar(name) ==
    CASE name = "table*" -> "table"
      [] name = "figure*" -> "figure"
      [] name = "equation*" -> "equation"
      [] name = "tabular*" -> "tabular"
      [] OTHER -> name

\* first index >= scan of a token of kind k naming env_name, with or without
\* one more star (the pattern  \\begin\s*\{ name \*? \} ), or -1
EnvSearch(text, scan, k, env_name) ==
    LET S == {j \in scan..(Len(text) - 1) :
                 /\ text[j + 1].k = k
                 /\ \/ text[j + 1].name = env_name
                    \/ text[j + 1].name = env_name \o "*"}
    IN IF S = {} THEN -1 ELSE Min(S)

RECURSIVE EnvScan(_, _, _, _, _)
EnvScan(text, content_start, env_name, depth, scan) ==
    LET nb == EnvSearch(text, scan, "begin", env_name)
        ne == EnvSearch(text, scan, "end", env_name)
    IN IF ne = -1
       THEN [content |-> Slice(text, content_start, Len(text)),
             pos |-> Len(text)]
       ELSE IF nb # -1 /\ nb < ne
            THEN EnvScan(text, content_start, env_name, depth + 1, nb + 1)
            ELSE IF depth - 1 = 0
                 THEN [content |-> Slice(text, content_start, ne),
                       pos |-> ne + 1]
                 ELSE EnvScan(text, content_start, env_name, depth - 1, ne + 1)

\* an extraction that stops at the first end of the name, nested or not
FirstEnd(text, content_start, env_name) ==
    LET ne == EnvSearch(text, content_start, "end", env_name)
    IN IF ne = -1
       THEN [content |-> Slice(text, content_start, Len(text)),
             pos |-> Len(text)]
       ELSE [content |-> Slice(text, content_start, ne), pos |-> ne + 1]

_find_env_end(text, content_start, env_name) ==
    EnvScan(text, content_start, env_name, 1, content_start)


(***************************************************************************)
(* Step 4 - LaTeX to plain text.  The cleaned text is a sequence of atoms: *)
(* the prose words that survive, blank lines, and the literal characters   *)
(* the substitutions leave behind ("center" from \begin{center}, "[", "&", *)
(* "formula").  Atoms are separated by one blank.                          *)
(***************************************************************************)
MathEnvs == {"equation", "align", "eqnarray", "gather", "multline",
             "displaymath"}

IsMath(t, k) == t.k = k /\ StripStar(t.name) \in MathEnvs

\* display math:  \begin{math} .*? \end{math}  ->  " formula "
RECURSIVE MathPass(_)
MathPass(text) ==
    IF text = <<>> THEN <<>>
    ELSE IF IsMath(Head(text), "begin")
         THEN LET E == {j \in 2..Len(text) : IsMath(text[j], "end")}
              IN IF E = {} THEN <<Head(text)>> \o MathPass(Tail(text))
                 ELSE <<Lit("formula")>>
                      \o MathPass(SubSeq(text, Min(E) + 1, Len(text)))
         ELSE <<Head(text)>> \o MathPass(Tail(text))

\* what the command and brace substitutions leave of one lexeme
Residue(t) ==
    CASE t.k \in {"word", "par", "lit"} -> <<t>>
      [] t.k \in {"begin", "end", "input"} -> <<Lit(t.name)>>
      [] t.k = "lbrack" -> <<Lit("[")>>
      [] t.k = "rbrack" -> <<Lit("]")>>
      [] t.k = "amp" -> <<Lit("&")>>
      [] t.k = "comment" -> <<Lit("%")>>
      [] OTHER -> <<>>

RECURSIVE Strip(_)
Strip(atoms) ==
    IF atoms = <<>> THEN <<>>
    ELSE IF Head(atoms).k = "par" THEN Strip(Tail(atoms))
    ELSE IF atoms[Len(atoms)].k = "par"
         THEN Strip(SubSeq(atoms, 1, Len(atoms) - 1))
         ELSE atoms

\* \maketitle (?: \{ [^}]* \} )?  ->  ""  : a brace group that follows the
\* command directly goes with it, up to the first "}"
RECURSIVE TitlePass(_)
TitlePass(text) ==
    IF text = <<>> THEN <<>>
    ELSE IF Head(text).k = "maketitle" /\ Len(text) >= 2 /\ text[2].k = "lbrace"
         THEN LET C == {j \in 3..Len(text) : text[j].k = "rbrace"}
              IN IF C = {} THEN TitlePass(Tail(text))
                 ELSE TitlePass(SubSeq(text, Min(C) + 1, Len(text)))
         ELSE <<Head(text)>> \o TitlePass(Tail(text))

_clean_text(text) ==
    LET m == TitlePass(MathPass(text))
    IN Strip(Flatten([i \in 1..Len(m) |-> Residue(m[i])]))

\* len() of a literal the substitutions leave
LitLen(name) ==
    CASE name \in {"[", "]", "&", "%", "\n"} -> 1
      [] name \in {"foo", "   "} -> 3
      [] name \in {"table", "intro"} -> 5
      [] name \in {"center", "figure", "table*"} -> 6
      [] name \in {"itemize", "formula", "tabular", "figure*"} -> 7
      [] name \in {"equation", "abstract", "document", "tabularx",
                   "tabular*"} -> 8
      [] OTHER -> 9

Width(a) ==
    CASE a.k = "word" -> WordLen
      [] a.k = "par" -> 2
      [] OTHER -> LitLen(a.name)

\* len() of a cleaned text
TextLen(atoms) ==
    IF atoms = <<>> THEN 0
    ELSE SumSeq([i \in 1..Len(atoms) |-> Width(atoms[i])]) + Len(atoms) - 1

(***************************************************************************)
(* Elements.  {"Headline": label + " " + heading} keeps its two parts.     *)
(***************************************************************************)
Element(kind, label, text) == [kind |-> kind, label |-> label, text |-> text]

(***************************************************************************)
(* Step 5 - tables and figures.                                            *)
(***************************************************************************)
\* text.split(sep): the pieces between the tokens of kind sep
RECURSIVE SplitOn(_, _)
SplitOn(text, sep) ==
    LET S == {j \in 1..Len(text) : text[j].k = sep}
    IN IF S = {} THEN <<text>>
       ELSE <<SubSeq(text, 1, Min(S) - 1)>>
            \o SplitOn(SubSeq(text, Min(S) + 1, Len(text)), sep)

RECURSIVE JoinWith(_, _)
JoinWith(parts, sep) ==
    IF parts = <<>> THEN <<>>
    ELSE IF Len(parts) = 1 THEN Head(parts)
    ELSE Head(parts) \o <<sep>> \o JoinWith(Tail(parts), sep)

_tabular_to_text(tabular_content) ==
    LET content == SelectSeq(tabular_content, LAMBDA t : t.k # "rule")
        rows == SplitOn(content, "rowsep")
        CellsOf(row) ==
            LET raw == SplitOn(row, "amp")
                cl == [i \in 1..Len(raw) |-> Strip(_clean_text(raw[i]))]
            IN SelectSeq(cl, LAMBDA c : c # <<>>)
        lines == SelectSeq([i \in 1..Len(rows) |->
                               JoinWith(CellsOf(rows[i]), Lit("   "))],
                           LAMBDA l : l # <<>>)
    IN JoinWith(lines, Lit("\n"))

\* index after the leading blank-line tokens at i
SkipWs(text, i) ==
    LET S == {j \in i..(Len(text) - 1) : text[j + 1].k # "par"}
    IN IF S = {} THEN Len(text) ELSE Min(S)

\* index of the "{" that ends a match of
\*   \caption \s* (?: \[ [^\]]* \] )? \s* \{   starting at c, or -1
CaptionBrace(text, c) ==
    LET n == Len(text)
        j == SkipWs(text, c + 1)
    IN IF j < n /\ text[j + 1].k = "lbrace" THEN j
       ELSE IF j < n /\ text[j + 1].k = "lbrack"
            THEN LET Close == {x \in (j + 1)..(n - 1) : text[x + 1].k = "rbrack"}
                 IN IF Close = {} THEN -1
                    ELSE LET b == SkipWs(text, Min(Close) + 1)
                         IN IF b < n /\ text[b + 1].k = "lbrace" THEN b ELSE -1
            ELSE -1

\* a search that finds no caption
NoCaptions(text, from) == <<>>

\* the cleaned, non-empty caption texts, in the order re.finditer finds them
RECURSIVE Captions(_, _)
Captions(text, from) ==
    LET C == {c \in from..(Len(text) - 1) : text[c + 1].k = "caption"}
    IN IF C = {} THEN <<>>
       ELSE LET c == Min(C)
                b == CaptionBrace(text, c)
            IN IF b = -1 THEN Captions(text, c + 1)
               ELSE LET cap == Strip(_clean_text(_extract_braced(text, b).content))
                    IN (IF cap # <<>> THEN <<cap>> ELSE <<>>)
                       \o Captions(text, b + 1)

TabularNames == {"tabular", "tabularx", "tabular*"}

\* the elements _parse_table_env appends
_parse_table_env(text) ==
    LET captions == Captions(text, 0)
        T == {j \in 0..(Len(text) - 1) :
                 text[j + 1].k = "begin" /\ text[j + 1].name \in TabularNames}
        table_text ==
            IF T = {} THEN <<>>
            ELSE LET tab_m == Min(T)
                     env_name == text[tab_m + 1].name
                     after_begin == _skip_optional_arg(text, tab_m + 1)
                     after_spec == _extract_braced(text, after_begin).pos
                 IN _tabular_to_text(
                        _find_env_end(text, after_spec, env_name).content)
        A == {j \in 0..(Len(text) - 1) :
                 text[j + 1].k = "end" /\ text[j + 1].name \in TabularNames}
        notes ==
            IF A = {} THEN <<>>
            ELSE LET notes_raw == Slice(text, Min(A) + 1, Len(text))
                     stripped == SelectSeq(notes_raw, LAMBDA t :
                                     ~(t.k = "end" /\ t.name \in {"table", "table*"}))
                 IN Strip(_clean_text(stripped))
    IN (IF table_text # <<>> THEN <<Element("Table", <<>>, table_text)>>
        ELSE <<>>)
       \o [i \in 1..Len(captions) |-> Element("Table_caption", <<>>, captions[i])]
       \o (IF notes # <<>> /\ TextLen(notes) > 5
           THEN <<Element("Table_caption", <<>>, notes)>> ELSE <<>>)

\* the elements _parse_figure_env appends
_parse_figure_env(text) ==
    LET captions == Captions(text, 0)
    IN [i \in 1..Len(captions) |-> Element("Figure_caption", <<>>, captions[i])]


(***************************************************************************)
(* Step 6 - the body walker.                                               *)
(***************************************************************************)
VARIABLES
    main_exists,   \* whether folder / main_file exists
    raw,           \* content of the main file
    body,          \* the isolated document body handed to the walker
    status,        \* "init", "run", "done", "error" (IndexError), "notfound"
    stack,         \* activation records of _parse_body, innermost last
    elements,      \* the output list
    counters       \* [section, subsection, subsubsection]

walker_vars == <<main_exists, raw, body, status, stack, elements, counters>>

\* _normalize_text (extract.py)
VARIABLES
    nraw,          \* the raw text, a sequence of characters
    npc,           \* "idle", "start", "lines", "merge", "filter", "runs",
                   \* "join", "done"
    lines,         \* raw.split("\n")
    typical_len,   \* the 75th-percentile length of the long lines
    paragraphs,
    merged,
    cleaned,
    result         \* the returned text

norm_vars == <<nraw, npc, lines, typical_len, paragraphs, merged, cleaned,
               result>>

\* _remove_short_runs, called on its own
VARIABLES
    rparas,        \* the argument  paragraphs
    rpc,           \* "idle", "call", "done"
    rout           \* the returned list

runs_vars == <<rparas, rpc, rout>>

_TRANSPARENT_ENVS == {"document", "center", "flushleft", "flushright", "quote",
                      "quotation", "verse", "minipage", "framed", "mdframed",
                      "tcolorbox", "columns", "column", "frame"}

_SKIP_ENVS == {"tikzpicture", "pgfpicture", "lstlisting", "verbatim",
               "verbatim*", "algorithm", "algorithmic", "comment",
               "filecontents", "thebibliography", "equation", "equation*",
               "align", "align*", "eqnarray", "eqnarray*", "gather", "gather*",
               "multline", "multline*", "displaymath", "array", "pmatrix",
               "bmatrix"}

\* _TOKEN.search(text, pos): index of the first heading command, \appendix,
\* \begin{...} or \maketitle at or after pos (any letter case), or -1
_TOKEN(text, pos) ==
    LET S == {j \in pos..(Len(text) - 1) :
                 text[j + 1].k \in {"heading", "appendix", "begin", "maketitle"}}
    IN IF S = {} THEN -1 ELSE Min(S)

\* cmd.count("sub")
SubCount(cmd) ==
    CASE cmd = "section" -> 0
      [] cmd = "subsection" -> 1
      [] cmd = "subsubsection" -> 2
      [] cmd = "subsubsubsection" -> 3

\* the elements _flush_text appends for the buffer buf
_flush_text(buf) ==
    LET chunks == SplitOn(Flatten(buf), "par")
        texts == [i \in 1..Len(chunks) |-> _clean_text(chunks[i])]
        kept == SelectSeq(texts, LAMBDA c : c # <<>> /\ TextLen(c) > 10)
    IN [i \in 1..Len(kept) |-> Element("Paragraph", <<>>, kept[i])]

Digit == <<"0", "1", "2", "3", "4", "5", "6", "7", "8", "9">>

\* str(n), as a sequence of characters
RECURSIVE Dec(_)
Dec(n) == IF n < 10 THEN <<Digit[n + 1]>>
          ELSE Dec(n \div 10) \o <<Digit[(n % 10) + 1]>>

\* chr(ord("A") + c - 1) for c in 0..27
Letter == <<"@", "A", "B", "C", "D", "E", "F", "G", "H", "I", "J", "K", "L",
            "M", "N", "O", "P", "Q", "R", "S", "T", "U", "V", "W", "X", "Y",
            "Z", "[">>

_heading_label(level, c, in_appendix) ==
    IF ~in_appendix
    THEN IF level = 0 THEN Dec(c[1]) \o <<".">>
         ELSE IF level = 1 THEN Dec(c[1]) \o <<".">> \o Dec(c[2])
         ELSE Dec(c[1]) \o <<".">> \o Dec(c[2]) \o <<".">> \o Dec(c[3])
    ELSE LET letter == Letter[c[1] + 1]
         IN IF level = 0 THEN <<letter, ".">>
            ELSE IF level = 1 THEN <<letter, ".">> \o Dec(c[2])
            ELSE <<letter, ".">> \o Dec(c[2]) \o <<".">> \o Dec(c[3])

Frame(text, in_appendix) ==
    [text |-> text, pos |-> 0, text_buf |-> <<>>, in_appendix |-> in_appendix]

Top == stack[Len(stack)]

\* the stack with the running activation replaced by f
SetTop(f) == [stack EXCEPT ![Len(stack)] = f]

Running == status = "run" /\ stack # <<>>

\* the match the loop iteration of activation f works on, or -1
Match(f) == IF f.pos < Len(f.text) THEN _TOKEN(f.text, f.pos) ELSE -1

\* text_buf after  text_buf.append(text[pos : m.start()])
Buffered(f, m) == Append(f.text_buf, Slice(f.text, f.pos, m))

(***************************************************************************)
(* parse_latex_project: load, expand, title, body isolation.               *)
(***************************************************************************)
ParseNotFound ==
    /\ status = "init"
    /\ ~main_exists
    /\ status' = "notfound"
    /\ UNCHANGED <<main_exists, raw, body, stack, elements, counters>>

\* re.search(r"\\title\s*\{", preamble): index of the "{", or -1
TitleBrace(preamble) ==
    LET TM == {j \in 0..(Len(preamble) - 1) :
                  /\ preamble[j + 1].k = "title"
                  /\ SkipWs(preamble, j + 1) < Len(preamble)
                  /\ preamble[SkipWs(preamble, j + 1) + 1].k = "lbrace"}
    IN IF TM = {} THEN -1 ELSE SkipWs(preamble, Min(TM) + 1)

\* index of the first token equal to t, or -1
IndexOf(text, t) ==
    LET S == {j \in 0..(Len(text) - 1) : text[j + 1] = t}
    IN IF S = {} THEN -1 ELSE Min(S)

ParseStart ==
    /\ status = "init"
    /\ main_exists
    /\ IF ExpandFails(_strip_comments(raw), Files, IncludeDepth)
       THEN /\ status' = "error"
            /\ UNCHANGED <<body, stack, elements, counters>>
       ELSE \E text \in {_expand_includes(_strip_comments(raw), Files,
                                          IncludeDepth)} :
            \E doc_begin \in {IndexOf(text, Begin("document"))},
               doc_end \in {IndexOf(text, End("document"))} :
            \E preamble \in {IF doc_begin = -1 THEN text
                             ELSE Slice(text, 0, doc_begin)} :
            \E tm \in {TitleBrace(preamble)} :
            \E title \in {IF tm = -1 THEN <<>>
                          ELSE Strip(_clean_text(
                                   _extract_braced(preamble, tm).content))},
               b \in {IF doc_begin = -1 THEN text
                      ELSE Slice(text, doc_begin + 1,
                                 IF doc_end = -1 THEN Len(text) ELSE doc_end)} :
               /\ body' = b
               /\ elements' = IF title # <<>>
                              THEN <<Element("Title", <<>>, title)>> ELSE <<>>
               /\ counters' = <<0, 0, 0>>
               /\ stack' = <<Frame(b, FALSE)>>
               /\ status' = "run"
    /\ UNCHANGED <<main_exists, raw>>

(***************************************************************************)
(* _parse_body: one action per branch of the scan loop.  f is the running  *)
(* activation and m the index of the matched token.                        *)
(***************************************************************************)
\* no more tokens: collect the remaining text and leave the loop
NoToken ==
    /\ Running
    /\ \E f \in {Top} :
          /\ f.pos < Len(f.text)
          /\ Match(f) = -1
          /\ stack' = SetTop([f EXCEPT
                                !.text_buf = Append(@, Slice(f.text, f.pos,
                                                             Len(f.text))),
                                !.pos = Len(f.text)])
    /\ UNCHANGED <<main_exists, raw, body, status, elements, counters>>

\* a return that drops the text still buffered
ReturnNoFlush ==
    /\ Running
    /\ Top.pos >= Len(Top.text)
    /\ stack' = SubSeq(stack, 1, Len(stack) - 1)
    /\ status' = IF Len(stack) = 1 THEN "done" ELSE "run"
    /\ UNCHANGED <<main_exists, raw, body, elements, counters>>

\* the loop has ended: final flush, return to the caller
ReturnFrame ==
    /\ Running
    /\ Top.pos >= Len(Top.text)
    /\ elements' = elements \o _flush_text(Top.text_buf)
    /\ stack' = SubSeq(stack, 1, Len(stack) - 1)
    /\ status' = IF Len(stack) = 1 THEN "done" ELSE "run"
    /\ UNCHANGED <<main_exists, raw, body, counters>>

Maketitle ==
    /\ Running
    /\ \E f \in {Top} : \E m \in {Match(f)} :
          /\ m # -1
          /\ f.text[m + 1].name = "\\maketitle"
          /\ stack' = SetTop([f EXCEPT !.text_buf = Buffered(f, m),
                                       !.pos = m + 1])
    /\ UNCHANGED <<main_exists, raw, body, status, elements, counters>>

Appendix ==
    /\ Running
    /\ \E f \in {Top} : \E m \in {Match(f)} :
          /\ m # -1
          /\ f.text[m + 1].name = "\\appendix"
          /\ counters' = <<0, 0, 0>>
          /\ stack' = SetTop([f EXCEPT !.text_buf = Buffered(f, m),
                                       !.in_appendix = TRUE,
                                       !.pos = m + 1])
    /\ UNCHANGED <<main_exists, raw, body, status, elements>>

\* a match that is none of the literal tokens and fills no group
\* (\Appendix, \MakeTitle: the pattern ignores case, the comparisons do not)
OtherMatch ==
    /\ Running
    /\ \E f \in {Top} : \E m \in {Match(f)} :
          /\ m # -1
          /\ f.text[m + 1].k \in {"appendix", "maketitle"}
          /\ f.text[m + 1].name \notin {"\\appendix", "\\maketitle"}
          /\ stack' = SetTop([f EXCEPT !.text_buf = Buffered(f, m),
                                       !.pos = m + 1])
    /\ UNCHANGED <<main_exists, raw, body, status, elements, counters>>

\* a heading that increments its counter and resets nothing
BumpNoReset(c, level) ==
    [i \in 1..3 |-> IF i = level + 1 THEN c[i] + 1 ELSE c[i]]

\* counters after  counters[level] += 1; for i in range(level + 1, 3): ... = 0
Bump(c, level) ==
    [i \in 1..3 |-> IF i = level + 1 THEN c[i] + 1
                    ELSE IF i > level + 1 THEN 0 ELSE c[i]]

Heading ==
    /\ Running
    /\ \E f \in {Top} : \E m \in {Match(f)} :
          /\ m # -1
          /\ f.text[m + 1].k = "heading"
          /\ \E level \in {SubCount(f.text[m + 1].name)},
                flushed \in {elements \o _flush_text(Buffered(f, m))},
                br \in {_extract_braced(f.text,
                                        _skip_optional_arg(f.text, m + 1))} :
                IF level > 2
                THEN \* counters[level] += 1 raises IndexError
                     /\ status' = "error"
                     /\ elements' = flushed
                     /\ stack' = SetTop([f EXCEPT !.text_buf = <<>>])
                     /\ UNCHANGED counters
                ELSE \E c \in {Bump(counters, level)} :
                     /\ counters' = c
                     /\ elements' =
                           Append(flushed,
                                  Element("Headline",
                                          _heading_label(level, c, f.in_appendix),
                                          Strip(_clean_text(br.content))))
                     /\ stack' = SetTop([f EXCEPT !.text_buf = <<>>,
                                                  !.pos = br.pos])
                     /\ UNCHANGED status
    /\ UNCHANGED <<main_exists, raw, body>>

\* an environment branch that finds the content but leaves the position
\* where the iteration started
EnvStuck(f, m) ==
    [content |-> _find_env_end(f.text, _skip_optional_arg(f.text, m + 1),
                               StripStar(f.text[m + 1].name)).content,
     pos |-> f.pos]

\* the \begin{env} branch up to the dispatch on the name:
\* [content, pos] of the environment that begins at m
Env(f, m) ==
    _find_env_end(f.text, _skip_optional_arg(f.text, m + 1),
                  StripStar(f.text[m + 1].name))

IsBegin(f, m) == m # -1 /\ f.text[m + 1].k = "begin"

Structured == {"abstract", "table", "table*", "figure", "figure*",
               "itemize", "enumerate", "description"}

Abstract ==
    /\ Running
    /\ \E f \in {Top} : \E m \in {Match(f)} :
          /\ IsBegin(f, m)
          /\ StripStar(f.text[m + 1].name) = "abstract"
          /\ \E env \in {Env(f, m)} : \E abs \in {_clean_text(env.content)} :
                /\ elements' = elements \o _flush_text(Buffered(f, m))
                                  \o (IF abs # <<>>
                                      THEN <<Element("Abstract", <<>>, abs)>>
                                      ELSE <<>>)
                /\ stack' = SetTop([f EXCEPT !.text_buf = <<>>, !.pos = env.pos])
    /\ UNCHANGED <<main_exists, raw, body, status, counters>>

Table ==
    /\ Running
    /\ \E f \in {Top} : \E m \in {Match(f)} :
          /\ IsBegin(f, m)
          /\ StripStar(f.text[m + 1].name) \in {"table", "table*"}
          /\ \E env \in {Env(f, m)} :
                /\ elements' = elements \o _flush_text(Buffered(f, m))
                                  \o _parse_table_env(env.content)
                /\ stack' = SetTop([f EXCEPT !.text_buf = <<>>, !.pos = env.pos])
    /\ UNCHANGED <<main_exists, raw, body, status, counters>>

Figure ==
    /\ Running
    /\ \E f \in {Top} : \E m \in {Match(f)} :
          /\ IsBegin(f, m)
          /\ StripStar(f.text[m + 1].name) \in {"figure", "figure*"}
          /\ \E env \in {Env(f, m)} :
                /\ elements' = elements \o _flush_text(Buffered(f, m))
                                  \o _parse_figure_env(env.content)
                /\ stack' = SetTop([f EXCEPT !.text_buf = <<>>, !.pos = env.pos])
    /\ UNCHANGED <<main_exists, raw, body, status, counters>>

\* re.sub(r"\\item\s*", "\n\n", env_content)
RECURSIVE ItemsText(_)
ItemsText(text) ==
    IF text = <<>> THEN <<>>
    ELSE IF Head(text).k = "item"
         THEN <<Par>> \o ItemsText(Slice(text, SkipWs(text, 1), Len(text)))
         ELSE <<Head(text)>> \o ItemsText(Tail(text))

\* the recursive call  _parse_body(text, elements, counters, in_appendix):
\* the caller, left as activation f, resumes at after_env when it returns
Descend(f, after_env, text) ==
    Append(SetTop([f EXCEPT !.pos = after_env]), Frame(text, f.in_appendix))

List ==
    /\ Running
    /\ \E f \in {Top} : \E m \in {Match(f)} :
          /\ IsBegin(f, m)
          /\ StripStar(f.text[m + 1].name) \in {"itemize", "enumerate",
                                                "description"}
          /\ \E env \in {Env(f, m)} :
                /\ elements' = elements \o _flush_text(Buffered(f, m))
                /\ stack' = Descend([f EXCEPT !.text_buf = <<>>], env.pos,
                                    ItemsText(env.content))
    /\ UNCHANGED <<main_exists, raw, body, status, counters>>

Transparent ==
    /\ Running
    /\ \E f \in {Top} : \E m \in {Match(f)} :
          /\ IsBegin(f, m)
          /\ StripStar(f.text[m + 1].name) \notin Structured
          /\ StripStar(f.text[m + 1].name) \in _TRANSPARENT_ENVS
          /\ \E env \in {Env(f, m)} :
                stack' = Descend([f EXCEPT !.text_buf = Buffered(f, m)],
                                 env.pos, env.content)
    /\ UNCHANGED <<main_exists, raw, body, status, elements, counters>>

Skip ==
    /\ Running
    /\ \E f \in {Top} : \E m \in {Match(f)} :
          /\ IsBegin(f, m)
          /\ StripStar(f.text[m + 1].name) \notin Structured
          /\ StripStar(f.text[m + 1].name) \notin _TRANSPARENT_ENVS
          /\ StripStar(f.text[m + 1].name) \in _SKIP_ENVS
          /\ \E env \in {Env(f, m)} :
                stack' = SetTop([f EXCEPT !.text_buf = Buffered(f, m),
                                          !.pos = env.pos])
    /\ UNCHANGED <<main_exists, raw, body, status, elements, counters>>

Unknown ==
    /\ Running
    /\ \E f \in {Top} : \E m \in {Match(f)} :
          /\ IsBegin(f, m)
          /\ StripStar(f.text[m + 1].name) \notin Structured
          /\ StripStar(f.text[m + 1].name) \notin _TRANSPARENT_ENVS
          /\ StripStar(f.text[m + 1].name) \notin _SKIP_ENVS
          /\ \E env \in {Env(f, m)} :
                stack' = Descend([f EXCEPT !.text_buf = Buffered(f, m)],
                                 env.pos, env.content)
    /\ UNCHANGED <<main_exists, raw, body, status, elements, counters>>

(***************************************************************************)
(* The main files parse_latex_project is run on, over one environment name *)
(* each: up to MaxLen core constructs, or one of the rarer constructs with *)
(* up to MaxCtx context constructs before and after it.  The prose words   *)
(* are pairwise distinct: a word's id is its index in the file.            *)
(***************************************************************************)
EnvNames == {"center", "itemize", "foo", "equation"}

HeadingOf(cmd) == <<Cmd(cmd), LBrace, Word(0), RBrace>>

CoreFrags(nm) ==
    {<<Word(0)>>, HeadingOf("section"), HeadingOf("subsection"),
     HeadingOf("subsubsection"), <<AppendixTok>>, <<Begin(nm)>>, <<End(nm)>>}

CtxFrags(nm) ==
    {<<Word(0)>>, HeadingOf("section"), <<Begin(nm)>>, <<End(nm)>>}

RareFrags ==
    {HeadingOf("subsubsubsection"),
     <<MaketitleTok>>, <<AppendixUpper>>, <<Par>>, <<Item>>, <<Comment>>,
     <<Cmd("section"), LBrace, Word(0)>>,
     <<Cmd("section"), Word(0)>>,
     <<Cmd("section"), LBrack, Word(0)>>,
     <<Cmd("section"), LBrack, Word(0), RBrack, LBrace, Word(0), RBrace>>,
     <<Input("missing")>>, <<Input("intro")>>,
     <<Begin("abstract"), Word(0), End("abstract")>>,
     <<Begin("figure"), Caption, LBrace, Word(0), RBrace, End("figure")>>,
     <<Begin("table"), Caption, LBrace, Word(0), RBrace,
       Begin("tabular"), LBrace, Word(0), RBrace, Rule,
       Word(0), Amp, Word(0), RowSep, End("tabular"), Word(0),
       End("table")>>}

TitleOf(arg) == <<TitleCmd, LBrace>> \o arg \o <<RBrace>>

\* the preambles: no title, a title, an empty title, an empty title before
\* a full one, a title with an optional argument, a blank line before the
\* brace, two titles
Preambles ==
    {<<>>, TitleOf(<<Word(0)>>), TitleOf(<<>>),
     TitleOf(<<>>) \o TitleOf(<<Word(0)>>),
     <<TitleCmd, LBrack, Word(0), RBrack, LBrace, Word(0), RBrace>>,
     <<TitleCmd, Par, LBrace, Word(0), RBrace>>,
     TitleOf(<<Word(0)>>) \o TitleOf(<<Word(0)>>)}

BodyFrags(nm) == CtxFrags(nm) \cup {TitleOf(<<Word(0)>>)}

\* a body as it stands, inside a document environment, or after a
\* \begin{document} that is never closed
Wrappings(b) ==
    {b, <<Begin("document")>> \o b \o <<End("document")>>,
     <<Begin("document")>> \o b}

Renumber(text) ==
    [i \in 1..Len(text) |-> IF text[i].k = "word" THEN Word(i) ELSE text[i]]

SeqsUpTo(S, n) == UNION {[1..k -> S] : k \in 0..n}

\* extract_text: the file, the page selection, the loop and the outcome
VARIABLES pdf_exists, doc, pages, xpc, page_range, xi, raw_parts, xresult,
          xerr

extract_vars ==
    <<pdf_exists, doc, pages, xpc, page_range, xi, raw_parts, xresult, xerr>>

\* _clean_text on a text of characters: entry point, input, position, values
VARIABLES centry, ctext, cpc, cvalues

clean_vars ==
    <<centry, ctext, cpc, cvalues>>

\* chunk_text: arguments, position, sentences, loop index, locals, result
VARIABLES ktext, kmax, kpc, ksentences, ki, kcurrent, kcurrent_len, kchunks

chunk_vars ==
    <<ktext, kmax, kpc, ksentences, ki, kcurrent, kcurrent_len, kchunks>>

\* pdf_to_speech and latex_folder_to_speech: entry point, extracted text, parsed elements, max_chars_per_chunk, whether on_progress is given, position, chunks, idx, audio_parts, and the calls made so far
VARIABLES pentry, ptext, pelements, pmax, pcallback, ppc, pchunks, pidx, paudio_parts, ptrace

pipe_vars ==
    <<pentry, ptext, pelements, pmax, pcallback, ppc, pchunks, pidx, paudio_parts, ptrace>>

\* two invocations of parse_latex_project: their main files, the stage, the
\* invocation that runs, the suspended one, the outcomes of running alone,
\* whether one was suspended while both were inside the walker
VARIABLES projects, stage, turn, parked, alone, interleaved

par_vars ==
    <<projects, stage, turn, parked, alone, interleaved>>

\* _parse_table_env: the body of the table environment, the list as given, the list, the position
VARIABLES tbody, tgiven, tlist, tpc

table_vars ==
    <<tbody, tgiven, tlist, tpc>>

\* one call of _extract_braced on a string: the text, the position, the returned pair
VARIABLES btext, bpos, bout, bpc

brace_vars ==
    <<btext, bpos, bout, bpc>>

vars ==
    <<walker_vars, norm_vars, runs_vars, extract_vars,
      clean_vars, chunk_vars, pipe_vars, par_vars,
      table_vars, brace_vars>>

not_walker ==
    <<norm_vars, runs_vars, extract_vars, clean_vars,
      chunk_vars, pipe_vars, par_vars, table_vars,
      brace_vars>>
not_norm ==
    <<walker_vars, runs_vars, extract_vars, clean_vars,
      chunk_vars, pipe_vars, par_vars, table_vars,
      brace_vars>>
not_runs ==
    <<walker_vars, norm_vars, extract_vars, clean_vars,
      chunk_vars, pipe_vars, par_vars, table_vars,
      brace_vars>>
not_extract ==
    <<walker_vars, norm_vars, runs_vars, clean_vars,
      chunk_vars, pipe_vars, par_vars, table_vars,
      brace_vars>>
not_clean ==
    <<walker_vars, norm_vars, runs_vars, extract_vars,
      chunk_vars, pipe_vars, par_vars, table_vars,
      brace_vars>>
not_chunk ==
    <<walker_vars, norm_vars, runs_vars, extract_vars,
      clean_vars, pipe_vars, par_vars, table_vars,
      brace_vars>>
not_pipe ==
    <<walker_vars, norm_vars, runs_vars, extract_vars,
      clean_vars, chunk_vars, par_vars, table_vars,
      brace_vars>>
not_par ==
    <<walker_vars, norm_vars, runs_vars, extract_vars,
      clean_vars, chunk_vars, pipe_vars, table_vars,
      brace_vars>>
not_table ==
    <<walker_vars, norm_vars, runs_vars, extract_vars,
      clean_vars, chunk_vars, pipe_vars, par_vars,
      brace_vars>>
not_brace ==
    <<walker_vars, norm_vars, runs_vars, extract_vars,
      clean_vars, chunk_vars, pipe_vars, par_vars,
      table_vars>>

WalkerIdle ==
    /\ main_exists = FALSE
    /\ raw = <<>>
    /\ body = <<>>
    /\ status = "idle"
    /\ stack = <<>>
    /\ elements = <<>>
    /\ counters = <<0, 0, 0>>

NormIdle ==
    /\ nraw = <<>>
    /\ npc = "idle"
    /\ lines = <<>>
    /\ typical_len = 0
    /\ paragraphs = <<>>
    /\ merged = <<>>
    /\ cleaned = <<>>
    /\ result = <<>>

RunsIdle ==
    /\ rparas = <<>>
    /\ rpc = "idle"
    /\ rout = <<>>

ExtractIdle ==
    /\ pdf_exists = FALSE
    /\ doc = <<>>
    /\ pages = [kind |-> "none"]
    /\ xpc = "idle"
    /\ page_range = <<>>
    /\ xi = 0
    /\ raw_parts = <<>>
    /\ xresult = <<>>
    /\ xerr = <<>>

CleanIdle ==
    /\ centry = "idle"
    /\ ctext = <<>>
    /\ cpc = "idle"
    /\ cvalues = <<>>

ChunkIdle ==
    /\ ktext = <<>>
    /\ kmax = 0
    /\ kpc = "idle"
    /\ ksentences = <<>>
    /\ ki = 0
    /\ kcurrent = <<>>
    /\ kcurrent_len = 0
    /\ kchunks = <<>>

PipeIdle ==
    /\ pentry = "idle"
    /\ ptext = <<>>
    /\ pelements = <<>>
    /\ pmax = 0
    /\ pcallback = FALSE
    /\ ppc = "idle"
    /\ pchunks = <<>>
    /\ pidx = 0
    /\ paudio_parts = <<>>
    /\ ptrace = <<>>

ParIdle ==
    /\ projects = <<>>
    /\ stage = "idle"
    /\ turn = 0
    /\ parked = <<>>
    /\ alone = <<>>
    /\ interleaved = FALSE

TableIdle ==
    /\ tbody = <<>>
    /\ tgiven = <<>>
    /\ tlist = <<>>
    /\ tpc = "idle"

BraceIdle ==
    /\ btext = <<>>
    /\ bpos = 0
    /\ bout = [content |-> <<>>, pos |-> 0]
    /\ bpc = "idle"

\* every component but the one that runs is idle
OthersIdle(running) ==
    /\ running = "walker" \/ WalkerIdle
    /\ running = "norm" \/ NormIdle
    /\ running = "runs" \/ RunsIdle
    /\ running = "extract" \/ ExtractIdle
    /\ running = "clean" \/ CleanIdle
    /\ running = "chunk" \/ ChunkIdle
    /\ running = "pipe" \/ PipeIdle
    /\ running = "par" \/ ParIdle
    /\ running = "table" \/ TableIdle
    /\ running = "brace" \/ BraceIdle

(***************************************************************************)
(* Spec: parse_latex_project on the main files.                            *)
(***************************************************************************)
Init ==
    /\ \/ /\ main_exists = TRUE
          /\ \E nm \in EnvNames :
                \/ \E c \in SeqsUpTo(CoreFrags(nm), MaxLen) :
                      raw = Renumber(Flatten(c))
                \/ \E pre \in SeqsUpTo(CtxFrags(nm), MaxCtx),
                      post \in SeqsUpTo(CtxFrags(nm), MaxCtx),
                      r \in RareFrags :
                      raw = Renumber(Flatten(pre) \o r \o Flatten(post))
       \/ main_exists = FALSE /\ raw = <<>>
    /\ body = <<>>
    /\ status = "init"
    /\ stack = <<>>
    /\ elements = <<>>
    /\ counters = <<0, 0, 0>>
    /\ OthersIdle("walker")

Next ==
    \/ (ParseNotFound /\ UNCHANGED not_walker)
    \/ (ParseStart /\ UNCHANGED not_walker)
    \/ (NoToken /\ UNCHANGED not_walker)
    \/ (ReturnFrame /\ UNCHANGED not_walker)
    \/ (Maketitle /\ UNCHANGED not_walker)
    \/ (Appendix /\ UNCHANGED not_walker)
    \/ (OtherMatch /\ UNCHANGED not_walker)
    \/ (Heading /\ UNCHANGED not_walker)
    \/ (Abstract /\ UNCHANGED not_walker)
    \/ (Table /\ UNCHANGED not_walker)
    \/ (Figure /\ UNCHANGED not_walker)
    \/ (List /\ UNCHANGED not_walker)
    \/ (Transparent /\ UNCHANGED not_walker)
    \/ (Skip /\ UNCHANGED not_walker)
    \/ (Unknown /\ UNCHANGED not_walker)

Spec == Init /\ [][Next]_vars

(***************************************************************************)
(* SpecTitle: parse_latex_project on main files with a preamble: one of    *)
(* the preambles, then up to MaxCtx body constructs or one of the rarer    *)
(* constructs, as they stand or inside a document environment.             *)
(***************************************************************************)
Bodies(nm) ==
    {Flatten(b) : b \in SeqsUpTo(BodyFrags(nm), MaxCtx)}
        \cup RareFrags \cup {<<AppendixTok>>}

InitTitle ==
    /\ \/ /\ main_exists = TRUE
          /\ \E nm \in EnvNames, p \in Preambles :
                \E b \in Bodies(nm) : \E w \in Wrappings(b) :
                   raw = Renumber(p \o w)
       \/ main_exists = FALSE /\ raw = <<>>
    /\ body = <<>>
    /\ status = "init"
    /\ stack = <<>>
    /\ elements = <<>>
    /\ counters = <<0, 0, 0>>
    /\ OthersIdle("walker")

SpecTitle == InitTitle /\ [][Next]_vars

(***************************************************************************)
(* SpecInclude: parse_latex_project on main files that include a file of   *)
(* the project folder, or one that is missing, before one construct.       *)
(***************************************************************************)
IncludeNames == DOMAIN Files \cup {"missing"}

InitInclude ==
    /\ \/ /\ main_exists = TRUE
          /\ \E nm \in EnvNames, n \in IncludeNames :
                \E r \in CoreFrags(nm) \cup RareFrags :
                   raw = Renumber(<<Word(0), Input(n)>> \o r)
       \/ main_exists = FALSE /\ raw = <<>>
    /\ body = <<>>
    /\ status = "init"
    /\ stack = <<>>
    /\ elements = <<>>
    /\ counters = <<0, 0, 0>>
    /\ OthersIdle("walker")

SpecInclude == InitInclude /\ [][Next]_vars

(***************************************************************************)
(* extract.py - characters and strings.                                    *)
(***************************************************************************)
IsSpace(c) == c \in {" ", "\n", "\t"}

IsDigit(c) == c \in {"0", "1", "2", "3", "4", "5", "6", "7", "8", "9"}

\* str.islower() of one character
IsLower(c) ==
    c \in {"a", "b", "c", "d", "e", "f", "g", "h", "i", "j", "k", "l", "m",
           "n", "o", "p", "q", "r", "s", "t", "u", "v", "w", "x", "y", "z"}

\* str.strip()
RECURSIVE StripChars(_)
StripChars(t) ==
    IF t = <<>> THEN <<>>
    ELSE IF IsSpace(Head(t)) THEN StripChars(Tail(t))
    ELSE IF IsSpace(t[Len(t)]) THEN StripChars(SubSeq(t, 1, Len(t) - 1))
         ELSE t

\* raw.split("\n")
RECURSIVE SplitLines(_)
SplitLines(t) ==
    LET N == {j \in 1..Len(t) : t[j] = "\n"}
    IN IF N = {} THEN <<t>>
       ELSE <<SubSeq(t, 1, Min(N) - 1)>>
            \o SplitLines(SubSeq(t, Min(N) + 1, Len(t)))

\* sep.join(parts)
RECURSIVE JoinStr(_, _)
JoinStr(parts, sep) ==
    IF parts = <<>> THEN <<>>
    ELSE IF Len(parts) = 1 THEN Head(parts)
    ELSE Head(parts) \o sep \o JoinStr(Tail(parts), sep)

\* the loop of _join_lines: result after the lines from index i on
RECURSIVE JoinLoop(_, _, _)
JoinLoop(ls, i, acc) ==
    IF i > Len(ls) THEN acc
    ELSE JoinLoop(ls, i + 1,
                  IF acc # <<>> /\ acc[Len(acc)] = "-"
                  THEN SubSeq(acc, 1, Len(acc) - 1) \o ls[i]
                  ELSE acc \o <<" ">> \o ls[i])

\* lines joined by one blank whatever they end with
JoinBlank(ls) == JoinStr(ls, <<" ">>)

_join_lines(ls) == IF ls = <<>> THEN <<>> ELSE JoinLoop(ls, 2, ls[1])

\* ^\d{1,4}$
_PAGE_NUMBER(t) ==
    /\ Len(t) \in 1..4
    /\ \A i \in 1..Len(t) : IsDigit(t[i])

\* noise without the page-number rule
NoiseShortOnly(text) ==
    LET t == StripChars(text)
    IN \/ t = <<>>
       \/ Len(t) <= 3 /\ t[Len(t)] \notin {".", "!", "?"}

_is_noise(text) ==
    LET t == StripChars(text)
    IN \/ t = <<>>
       \/ _PAGE_NUMBER(t)
       \/ Len(t) <= 3 /\ t[Len(t)] \notin {".", "!", "?"}

_SHORT_THRESHOLD == 60

_RUN_MIN == 5

\* a paragraph of up to _SHORT_THRESHOLD characters
ShortInclusive(p) == Len(p) <= _SHORT_THRESHOLD

\* len(p) < _SHORT_THRESHOLD
Short(p) == Len(p) < _SHORT_THRESHOLD

\* the inner loop of _remove_short_runs: the end of the run of short
\* paragraphs, 0-based and exclusive
RECURSIVE RunEnd(_, _)
RunEnd(ps, run_end) ==
    IF run_end < Len(ps) /\ Short(ps[run_end + 1])
    THEN RunEnd(ps, run_end + 1) ELSE run_end

\* the outer loop of _remove_short_runs: the keep flags at its end
RECURSIVE KeepLoop(_, _, _)
KeepLoop(ps, run_start, keep) ==
    IF run_start >= Len(ps) THEN keep
    ELSE IF ~Short(ps[run_start + 1]) THEN KeepLoop(ps, run_start + 1, keep)
    ELSE LET run_end == RunEnd(ps, run_start + 1)
         IN KeepLoop(ps, run_end,
                     IF run_end - run_start >= _RUN_MIN
                     THEN [i \in 1..Len(ps) |->
                             IF run_start < i /\ i <= run_end THEN FALSE
                             ELSE keep[i]]
                     ELSE keep)

\* [p for p, k in zip(ps, keep) if k]
RECURSIVE Zip(_, _)
Zip(ps, keep) ==
    IF ps = <<>> THEN <<>>
    ELSE (IF Head(keep) THEN <<Head(ps)>> ELSE <<>>) \o Zip(Tail(ps), Tail(keep))

_remove_short_runs(ps) ==
    Zip(ps, KeepLoop(ps, 0, [i \in 1..Len(ps) |-> TRUE]))

\* sorted(lengths)[k], k 0-based
SortedAt(lengths, k) ==
    CHOOSE v \in {lengths[i] : i \in 1..Len(lengths)} :
        /\ Cardinality({i \in 1..Len(lengths) : lengths[i] < v}) <= k
        /\ k < Cardinality({i \in 1..Len(lengths) : lengths[i] <= v})

\* [len(l.strip()) for l in lines if len(l.strip()) > 20]
Lengths(ls) ==
    LET all == [i \in 1..Len(ls) |-> Len(StripChars(ls[i]))]
    IN SelectSeq(all, LAMBDA n : n > 20)

\* a threshold every line is below
BelowAlways(stripped, typical) == TRUE

\* len(stripped) < typical_len * 0.6
BelowThreshold(stripped, typical) == 5 * Len(stripped) < 3 * typical

\* the line loop of _normalize_text with its final flush: the paragraphs
RECURSIVE LineLoop(_, _, _, _, _)
LineLoop(ls, i, current, paras, typical) ==
    IF i > Len(ls)
    THEN IF current # <<>> THEN Append(paras, _join_lines(current)) ELSE paras
    ELSE LET stripped == StripChars(ls[i])
         IN IF stripped = <<>>
            THEN IF current # <<>>
                 THEN LineLoop(ls, i + 1, <<>>,
                               Append(paras, _join_lines(current)), typical)
                 ELSE LineLoop(ls, i + 1, current, paras, typical)
            ELSE IF BelowThreshold(stripped, typical)
                 THEN LineLoop(ls, i + 1, <<>>,
                               Append(paras,
                                      _join_lines(Append(current, stripped))),
                               typical)
                 ELSE LineLoop(ls, i + 1, Append(current, stripped), paras,
                               typical)

\* the merge loop of _normalize_text
RECURSIVE MergeLoop(_, _, _)
MergeLoop(paras, i, acc) ==
    IF i > Len(paras) THEN acc
    ELSE LET para == paras[i]
             last == IF acc = <<>> THEN <<>> ELSE acc[Len(acc)]
         IN IF /\ acc # <<>>
               /\ last # <<>> /\ last[Len(last)] = "-"
               /\ para # <<>> /\ IsLower(para[1])
            THEN MergeLoop(paras, i + 1,
                           [acc EXCEPT ![Len(acc)] =
                               SubSeq(last, 1, Len(last) - 1) \o para])
            ELSE MergeLoop(paras, i + 1, Append(acc, para))

(***************************************************************************)
(* _normalize_text, one action per phase.                                  *)
(***************************************************************************)
NormStart ==
    /\ npc = "start"
    /\ lines' = SplitLines(nraw)
    /\ \E lengths \in {Lengths(SplitLines(nraw))} :
          IF lengths = <<>>
          THEN /\ result' = StripChars(nraw)
               /\ npc' = "done"
               /\ UNCHANGED typical_len
          ELSE /\ typical_len' = SortedAt(lengths, (3 * Len(lengths)) \div 4)
               /\ npc' = "lines"
               /\ UNCHANGED result
    /\ UNCHANGED <<nraw, paragraphs, merged, cleaned>>

NormLines ==
    /\ npc = "lines"
    /\ paragraphs' = LineLoop(lines, 1, <<>>, <<>>, typical_len)
    /\ npc' = "merge"
    /\ UNCHANGED <<nraw, lines, typical_len, merged, cleaned, result>>

NormMerge ==
    /\ npc = "merge"
    /\ merged' = MergeLoop(paragraphs, 1, <<>>)
    /\ npc' = "filter"
    /\ UNCHANGED <<nraw, lines, typical_len, paragraphs, cleaned, result>>

NormFilter ==
    /\ npc = "filter"
    /\ cleaned' = SelectSeq(merged, LAMBDA p : ~_is_noise(p))
    /\ npc' = "runs"
    /\ UNCHANGED <<nraw, lines, typical_len, paragraphs, merged, result>>

NormRuns ==
    /\ npc = "runs"
    /\ cleaned' = _remove_short_runs(cleaned)
    /\ npc' = "join"
    /\ UNCHANGED <<nraw, lines, typical_len, paragraphs, merged, result>>

NormJoin ==
    /\ npc = "join"
    /\ result' = JoinStr(cleaned, <<"\n", "\n">>)
    /\ npc' = "done"
    /\ UNCHANGED <<nraw, lines, typical_len, paragraphs, merged, cleaned>>

(***************************************************************************)
(* SpecNorm: _normalize_text on raw texts of up to MaxLines lines of a few *)
(* shapes, and on up to MaxBlocks blocks of long lines set apart by one or *)
(* two blank lines.                                                        *)
(***************************************************************************)
Rep(c, n) == [i \in 1..n |-> c]

Occupa == <<"o", "c", "c", "u", "p", "a", "-">>

Tional == <<"t", "i", "o", "n", "a", "l">>

Occupational == <<"o", "c", "c", "u", "p", "a", "t", "i", "o", "n", "a", "l">>

NoDot == <<"N", "o", ".">>

\* a 22-character sentence
Sentence == <<"X">> \o Rep("x", 20) \o <<".">>

\* a 22-character line that breaks a word
Broken == Rep("x", 21) \o <<"-">>

\* a 30-character line
Wide == <<"X">> \o Rep("x", 28) \o <<".">>

LineShapes ==
    {<<>>, <<"4", "2">>, <<"4", "2", "4", "2">>, <<" ", "x", "y", " ">>,
     NoDot, Occupa, Tional, Sentence, Broken, Wide}

BlockShapes ==
    {<<Sentence>>, <<Broken>>, <<Wide, Wide, Wide>>}

BlankLines == {<<"\n", "\n">>, <<"\n", "\n", "\n">>}

InitNorm ==
    /\ OthersIdle("norm")
    /\ \/ \E ls \in SeqsUpTo(LineShapes, MaxLines) :
             nraw = JoinStr(ls, <<"\n">>)
       \/ \E bs \in SeqsUpTo(BlockShapes, MaxBlocks), sep \in BlankLines :
             nraw = JoinStr([i \in 1..Len(bs) |-> JoinStr(bs[i], <<"\n">>)],
                            sep)
    /\ npc = "start"
    /\ lines = <<>>
    /\ typical_len = 0
    /\ paragraphs = <<>>
    /\ merged = <<>>
    /\ cleaned = <<>>
    /\ result = <<>>

NextNorm ==
    \/ (NormStart /\ UNCHANGED not_norm)
    \/ (NormLines /\ UNCHANGED not_norm)
    \/ (NormMerge /\ UNCHANGED not_norm)
    \/ (NormFilter /\ UNCHANGED not_norm)
    \/ (NormRuns /\ UNCHANGED not_norm)
    \/ (NormJoin /\ UNCHANGED not_norm)

SpecNorm == InitNorm /\ [][NextNorm]_vars

(***************************************************************************)
(* SpecRuns: _remove_short_runs on lists made of a run of short            *)
(* paragraphs, a run of long ones, a run of short ones and a run of long   *)
(* ones, each of 0..MaxCount paragraphs.  The paragraphs differ in length, *)
(* so they are pairwise distinct.                                          *)
(***************************************************************************)
\* the i-th paragraph of a list: short ones have 59, 58, ... characters,
\* long ones 60, 61, ...
ShortPara(i) == Rep("x", _SHORT_THRESHOLD - i)

LongPara(i) == Rep("x", _SHORT_THRESHOLD + i - 1)

RunList(a, b, c, d) ==
    [i \in 1..(a + b + c + d) |->
        IF i <= a \/ (a + b < i /\ i <= a + b + c)
        THEN ShortPara(i) ELSE LongPara(i)]

RemoveShortRuns ==
    /\ rpc = "call"
    /\ rout' = _remove_short_runs(rparas)
    /\ rpc' = "done"
    /\ UNCHANGED rparas

InitRuns ==
    /\ OthersIdle("runs")
    /\ \E a \in 0..MaxCount, b \in 0..MaxCount, c \in 0..MaxCount,
          d \in 0..MaxCount :
          rparas = RunList(a, b, c, d)
    /\ rpc = "call"
    /\ rout = <<>>

NextRuns == RemoveShortRuns /\ UNCHANGED not_runs

SpecRuns == InitRuns /\ [][NextRuns]_vars

(***************************************************************************)
(* extract.py: extract_text.  A document is a sequence of pages; a page    *)
(* holds the blocks get_text("blocks") yields, in provider order, and the  *)
(* boxes find_tables() yields, or the fact that the detector fails.        *)
(***************************************************************************)
\* _normalize_text as one function of the raw text
_normalize_text(t) ==
    LET lengths == Lengths(SplitLines(t))
    IN IF lengths = <<>> THEN StripChars(t)
       ELSE LET typical == SortedAt(lengths, (3 * Len(lengths)) \div 4)
                paras == LineLoop(SplitLines(t), 1, <<>>, <<>>, typical)
                kept == SelectSeq(MergeLoop(paras, 1, <<>>),
                                  LAMBDA p : ~_is_noise(p))
            IN JoinStr(_remove_short_runs(kept), <<"\n", "\n">>)

\* a block: b[6], b[1], b[3], b[4]
Block(btype, y0, y1, text) ==
    [btype |-> btype, y0 |-> y0, y1 |-> y1, text |-> text]

Rect(y0, y1) == [y0 |-> y0, y1 |-> y1]

Page(blocks, tables, fails) ==
    [blocks |-> blocks, tables |-> tables, detector_fails |-> fails]

\* the boxes of the detected tables, none when the detector raises
_table_rects(page) ==
    IF page.detector_fails THEN <<>> ELSE page.tables


\* a band that overlaps or touches a rectangle
TouchesAnyRect(y0, y1, rects) ==
    \E j \in 1..Len(rects) : y1 >= rects[j].y0 /\ y0 <= rects[j].y1

_in_any_rect(y0, y1, rects) ==
    \E j \in 1..Len(rects) : y1 > rects[j].y0 /\ y0 < rects[j].y1

\* "".join(page_lines) of one page
PageText(page) ==
    LET excluded == _table_rects(page)
        kept == SelectSeq(page.blocks,
                          LAMBDA b : /\ b.btype = 0
                                     /\ ~_in_any_rect(b.y0, b.y1, excluded))
    IN Flatten([j \in 1..Len(kept) |-> kept[j].text])

\* list(range(start, stop, step)), step not zero
RECURSIVE PyRange(_, _, _)
PyRange(start, stop, step) ==
    IF (step > 0 /\ start >= stop) \/ (step < 0 /\ start <= stop) THEN <<>>
    ELSE <<start>> \o PyRange(start + step, stop, step)

\* a page_range that ignores the selection
AllPages(sel, n) == PyRange(0, n, 1)

\* the page_range of a selection for a document of n pages
PageRange(sel, n) ==
    CASE sel.kind = "none" -> PyRange(0, n, 1)
      [] sel.kind = "tuple" -> PyRange(sel.start, sel.stop, 1)
      [] sel.kind = "range" -> PyRange(sel.start, sel.stop, sel.step)

\* page_num < 0 or page_num >= len(doc)
OutOfRange(page_num, n) == page_num < 0 \/ page_num >= n

\* doc[page_num]
LoadPage(d, page_num) == d[page_num + 1]

ExtractNotFound ==
    /\ xpc = "call"
    /\ ~pdf_exists
    /\ xpc' = "FileNotFoundError"
    /\ UNCHANGED <<pdf_exists, doc, pages, page_range, xi, raw_parts,
                   xresult, xerr>>

\* fitz.open and the choice of page_range
ExtractOpen ==
    /\ xpc = "call"
    /\ pdf_exists
    /\ page_range' = PageRange(pages, Len(doc))
    /\ xi' = 0
    /\ xpc' = "loop"
    /\ UNCHANGED <<pdf_exists, doc, pages, raw_parts, xresult, xerr>>

\* an iteration of the page loop that raises
ExtractOutOfRange ==
    /\ xpc = "loop"
    /\ xi < Len(page_range)
    /\ OutOfRange(page_range[xi + 1], Len(doc))
    /\ xerr' = <<page_range[xi + 1], Len(doc)>>
    /\ xpc' = "IndexError"
    /\ UNCHANGED <<pdf_exists, doc, pages, page_range, xi, raw_parts,
                   xresult>>

\* an iteration of the page loop that appends the text of the page
ExtractPage ==
    /\ xpc = "loop"
    /\ xi < Len(page_range)
    /\ ~OutOfRange(page_range[xi + 1], Len(doc))
    /\ raw_parts' = Append(raw_parts,
                           PageText(LoadPage(doc, page_range[xi + 1])))
    /\ xi' = xi + 1
    /\ UNCHANGED <<pdf_exists, doc, pages, xpc, page_range, xresult, xerr>>

ExtractReturn ==
    /\ xpc = "loop"
    /\ xi = Len(page_range)
    /\ xresult' = _normalize_text(JoinStr(raw_parts, <<"\n">>))
    /\ xpc' = "returned"
    /\ UNCHANGED <<pdf_exists, doc, pages, page_range, xi, raw_parts, xerr>>

(***************************************************************************)
(* SpecExtract: extract_text on documents of up to MaxPages pages of a few *)
(* shapes, with no selection, a (start, stop) tuple or a range with a step *)
(* whose ends lie between -1 and MaxPages + 1.                             *)
(***************************************************************************)
MaxPages == 2

Line(c) == Rep(c, 21) \o <<".", "\n">>

\* one block of text
PlainPage == Page(<<Block(0, 0, 10, Line("a"))>>, <<>>, FALSE)

\* a picture, a block inside a table and a block below the table
TablePage ==
    Page(<<Block(1, 0, 10, Line("i")), Block(0, 12, 18, Line("t")),
           Block(0, 20, 30, Line("b"))>>,
         <<Rect(10, 20)>>, FALSE)

\* the same blocks on a page where the detector raises
FailPage == [TablePage EXCEPT !.detector_fails = TRUE]

BlankPage == Page(<<>>, <<>>, FALSE)

PageShapes == {PlainPage, TablePage, FailPage, BlankPage}

RangeEnds == (0 - 1)..(MaxPages + 1)

Selections ==
    {[kind |-> "none"]}
    \cup {[kind |-> "tuple", start |-> a, stop |-> b] : a \in RangeEnds, b \in RangeEnds}
    \cup {[kind |-> "range", start |-> a, stop |-> b, step |-> s] :
            a \in RangeEnds, b \in RangeEnds, s \in {0 - 1, 2}}

InitExtract ==
    /\ OthersIdle("extract")
    /\ \/ pdf_exists = TRUE /\ doc \in SeqsUpTo(PageShapes, MaxPages)
       \/ pdf_exists = FALSE /\ doc = <<>>
    /\ pages \in Selections
    /\ xpc = "call"
    /\ page_range = <<>>
    /\ xi = 0
    /\ raw_parts = <<>>
    /\ xresult = <<>>
    /\ xerr = <<>>

NextExtract ==
    \/ (ExtractNotFound /\ UNCHANGED not_extract)
    \/ (ExtractOpen /\ UNCHANGED not_extract)
    \/ (ExtractOutOfRange /\ UNCHANGED not_extract)
    \/ (ExtractPage /\ UNCHANGED not_extract)
    \/ (ExtractReturn /\ UNCHANGED not_extract)

SpecExtract == InitExtract /\ [][NextExtract]_vars


(***************************************************************************)
(* SpecBlocks: extract_text on a document of one page whose blocks and     *)
(* table boxes vary: text blocks above, inside, below and across the       *)
(* boxes, touching them or not, pictures, a detector that raises or not.   *)
(***************************************************************************)
MaxPageBlocks == 3

MaxBoxes == 2

PageBlocks ==
    {Block(0, 0, 1, <<"a", "\n">>), Block(0, 1, 2, <<"b", "\n">>),
     Block(0, 2, 3, <<"c", "\n">>), Block(0, 0, 3, <<"d", "\n">>),
     Block(0, 4, 5, <<"e", "\n">>), Block(1, 1, 2, <<"i", "\n">>)}

Boxes == {Rect(1, 2), Rect(2, 3)}

InitBlocks ==
    /\ OthersIdle("extract")
    /\ \/ /\ pdf_exists = TRUE
          /\ \E bs \in SeqsUpTo(PageBlocks, MaxPageBlocks),
                ts \in SeqsUpTo(Boxes, MaxBoxes), f \in BOOLEAN :
                doc = <<Page(bs, ts, f)>>
          /\ pages \in {[kind |-> "none"],
                        [kind |-> "tuple", start |-> 0, stop |-> 2]}
       \/ pdf_exists = FALSE /\ doc = <<>> /\ pages = [kind |-> "none"]
    /\ xpc = "call"
    /\ page_range = <<>>
    /\ xi = 0
    /\ raw_parts = <<>>
    /\ xresult = <<>>
    /\ xerr = <<>>

SpecBlocks == InitBlocks /\ [][NextExtract]_vars

(***************************************************************************)
(* latex.py: _clean_text on a text of characters.  A text is a sequence of *)
(* strings: each character that is no letter stands alone, and a maximal   *)
(* run of letters is one string, as no pattern of _clean_text ends inside  *)
(* a run of letters.  Positions are 1-based.                               *)
(***************************************************************************)
EmDash == "em-dash"

EnDash == "en-dash"

NonLetters ==
    {"\\", "{", "}", "[", "]", "*", "$", "%", "&", "#", "_", "|", "<", ">",
     " ", "\t", "\n", "~", "-", ",", ";", "'", ".", "=", "/", ":",
     "0", "1", "2", "3", "4", "5", "6", "7", "8", "9", EmDash, EnDash}

\* the string at position i, "" outside the text
At(t, i) == IF i \in 1..Len(t) THEN t[i] ELSE ""

\* [a-zA-Z]+
IsLetters(c) == c # "" /\ c \notin NonLetters

\* \w
WordChar(c) == IsLetters(c) \/ IsDigit(c) \/ c = "_"

\* len() of a string of the text
CharLen(c) == IF IsLetters(c) THEN Len(c) ELSE 1

\* len() of the text from position a to position b
CharCount(t, a, b) == SumSeq([j \in 1..(b - a + 1) |-> CharLen(t[a + j - 1])])

\* runs of letters that have come to stand side by side are one run
RECURSIVE Merge(_)
Merge(t) ==
    IF Len(t) < 2 THEN t
    ELSE IF IsLetters(t[1]) /\ IsLetters(t[2])
         THEN Merge(<<t[1] \o t[2]>> \o SubSeq(t, 3, Len(t)))
         ELSE <<t[1]>> \o Merge(Tail(t))

\* the first position from a on that holds a string of S, or 0
First(t, a, S) ==
    LET K == {k \in a..Len(t) : t[k] \in S}
    IN IF K = {} THEN 0 ELSE Min(K)

\* \{[^}]*\} with the "{" at j: the position of its "}", or 0
CloseAny(t, j) == First(t, j + 1, {"}"})

\* \{[^{}]*\} with the "{" at j: the position of its "}", or 0
CloseFlat(t, j) ==
    LET k == First(t, j + 1, {"{", "}"})
    IN IF k # 0 /\ t[k] = "}" THEN k ELSE 0

\* \*? at j: the position after it
Star(t, j) == IF At(t, j) = "*" THEN j + 1 ELSE j

\* \b after a command name that ends before position j
Boundary(t, j) == ~WordChar(At(t, j))

\* \s* at j: the position after it
SkipBlank(t, j) ==
    LET K == {k \in j..Len(t) : ~IsSpace(t[k])}
    IN IF K = {} THEN Len(t) + 1 ELSE Min(K)

\* a backslash at i followed by one of the names
IsCmd(t, i, names) == t[i] = "\\" /\ At(t, i + 1) \in names

LayoutCmds == {"noindent", "bigskip", "medskip", "smallskip", "vfill", "hfill"}

PageCmds == {"newpage", "clearpage", "cleardoublepage", "maketitle",
             "tableofcontents", "bibliographystyle", "bibliography"}

\* cite[a-z]*|ref|eqref|label|pageref, for the cite commands of the texts
RefCmds == {"cite", "citep", "citet", "ref", "eqref", "label", "pageref"}

_FMT_CMDS == {"textbf", "textit", "emph", "texttt", "textrm", "textsc",
              "textup", "textsf", "textmd", "text"}

Specials == {"%", "$", "&", "#", "_", "{", "}", "|", "<", ">"}

\* \\kw\{(?:equation|...)\*?\} at i: the position after it, or 0
EnvTagEnd(t, i, kw) ==
    IF /\ IsCmd(t, i, {kw})
       /\ At(t, i + 2) = "{"
       /\ At(t, i + 3) \in MathEnvs
       /\ At(t, Star(t, i + 4)) = "}"
    THEN Star(t, i + 4) + 1 ELSE 0

\* \\footnote\{[^{}]*(?:\{[^{}]*\}[^{}]*)?\} at i: the position after it
FootnoteEnd(t, i) ==
    IF ~(IsCmd(t, i, {"footnote"}) /\ At(t, i + 2) = "{") THEN 0
    ELSE LET k == First(t, i + 3, {"{", "}"})
         IN IF k = 0 THEN 0
            ELSE IF t[k] = "}" THEN k + 1
            ELSE LET c == CloseFlat(t, k)
                     e == IF c = 0 THEN 0 ELSE First(t, c + 1, {"{", "}"})
                 IN IF e # 0 /\ t[e] = "}" THEN e + 1 ELSE 0

\* \\includegraphics\s*(?:\[[^\]]*\])?\{[^}]*\} at i: the position after it
GraphicsEnd(t, i) ==
    IF ~IsCmd(t, i, {"includegraphics"}) THEN 0
    ELSE LET j == SkipBlank(t, i + 2)
             b == IF At(t, j) = "[" THEN First(t, j + 1, {"]"}) ELSE 0
             o == IF b # 0 THEN b + 1 ELSE j
         IN IF At(t, o) = "{" /\ CloseAny(t, o) # 0
            THEN CloseAny(t, o) + 1 ELSE 0

\* \\href\{[^}]*\}\{([^{}]*)\} at i: the position after it
HrefEnd(t, i) ==
    IF ~(IsCmd(t, i, {"href"}) /\ At(t, i + 2) = "{") THEN 0
    ELSE LET c == CloseAny(t, i + 2)
         IN IF c # 0 /\ At(t, c + 1) = "{" /\ CloseFlat(t, c + 1) # 0
            THEN CloseFlat(t, c + 1) + 1 ELSE 0

\* the end of a run of strings of S that starts at i
RunOf(t, i, S) ==
    LET K == {k \in i..Len(t) : t[k] \notin S}
    IN IF K = {} THEN Len(t) + 1 ELSE Min(K)

\* where a match of pattern p that starts at position i ends: the position
\* after the match, or 0 when p does not match at i
MatchEnd(p, t, i) ==
    CASE p = "comment" ->
            IF t[i] = "%" /\ At(t, i - 1) # "\\"
            THEN RunOf(t, i, {c \in {t[k] : k \in 1..Len(t)} : c # "\n"})
            ELSE 0
      [] p = "display" ->
            LET a == EnvTagEnd(t, i, "begin")
                K == {k \in a..Len(t) : EnvTagEnd(t, k, "end") # 0}
            IN IF a = 0 \/ K = {} THEN 0 ELSE EnvTagEnd(t, Min(K), "end")
      [] p = "dollars" ->
            LET K == {k \in (i + 2)..Len(t) : t[k] = "$" /\ At(t, k + 1) = "$"}
            IN IF t[i] = "$" /\ At(t, i + 1) = "$" /\ K # {}
               THEN Min(K) + 2 ELSE 0
      [] p = "inline" ->
            LET k == First(t, i + 1, {"$", "\n"})
            IN IF /\ t[i] = "$"
                  /\ k # 0
                  /\ t[k] = "$"
                  /\ CharCount(t, i + 1, k - 1) <= 200
               THEN k + 1 ELSE 0
      [] p = "layout" ->
            IF IsCmd(t, i, LayoutCmds) /\ Boundary(t, i + 2) THEN i + 2 ELSE 0
      [] p = "space" ->
            LET j == Star(t, i + 2)
            IN IF /\ IsCmd(t, i, {"vspace", "hspace"})
                  /\ At(t, j) = "{"
                  /\ CloseAny(t, j) # 0
               THEN CloseAny(t, j) + 1 ELSE 0
      [] p = "newline" ->
            IF IsCmd(t, i, {"newline", "linebreak"}) /\ Boundary(t, i + 2)
            THEN Star(t, i + 2) ELSE 0
      [] p = "rowbreak" ->
            IF t[i] = "\\" /\ At(t, i + 1) = "\\"
            THEN IF At(t, i + 2) = "[" /\ First(t, i + 3, {"]"}) # 0
                 THEN First(t, i + 3, {"]"}) + 1 ELSE i + 2
            ELSE 0
      [] p = "page" ->
            IF IsCmd(t, i, PageCmds) /\ Boundary(t, i + 2)
            THEN IF At(t, i + 2) = "{" /\ CloseAny(t, i + 2) # 0
                 THEN CloseAny(t, i + 2) + 1 ELSE i + 2
            ELSE 0
      [] p = "refs" ->
            IF /\ IsCmd(t, i, RefCmds)
               /\ At(t, i + 2) = "{"
               /\ CloseAny(t, i + 2) # 0
            THEN CloseAny(t, i + 2) + 1 ELSE 0
      [] p = "footnote" -> FootnoteEnd(t, i)
      [] p = "graphics" -> GraphicsEnd(t, i)
      [] p = "url" ->
            IF /\ IsCmd(t, i, {"url"})
               /\ At(t, i + 2) = "{"
               /\ CloseAny(t, i + 2) # 0
            THEN CloseAny(t, i + 2) + 1 ELSE 0
      [] p = "href" -> HrefEnd(t, i)
      [] p = "fmt" ->
            IF /\ IsCmd(t, i, _FMT_CMDS)
               /\ At(t, i + 2) = "{"
               /\ CloseFlat(t, i + 2) # 0
            THEN CloseFlat(t, i + 2) + 1 ELSE 0
      [] p = "tilde" -> IF t[i] = "~" THEN i + 1 ELSE 0
      [] p = "generic" ->
            LET j == Star(t, i + 2)
            IN IF /\ t[i] = "\\"
                  /\ IsLetters(At(t, i + 1))
                  /\ At(t, j) = "{"
                  /\ CloseFlat(t, j) # 0
               THEN CloseFlat(t, j) + 1 ELSE 0
      [] p = "command" ->
            IF t[i] = "\\" /\ IsLetters(At(t, i + 1))
            THEN Star(t, i + 2) ELSE 0
      [] p = "escaped" ->
            IF t[i] = "\\" /\ At(t, i + 1) \in Specials THEN i + 2 ELSE 0
      [] p = "braces" -> IF t[i] \in {"{", "}"} THEN i + 1 ELSE 0
      [] p = "emdash" ->
            IF t[i] = "-" /\ At(t, i + 1) = "-" /\ At(t, i + 2) = "-"
            THEN i + 3 ELSE 0
      [] p = "endash" ->
            IF t[i] = "-" /\ At(t, i + 1) = "-" THEN i + 2 ELSE 0
      [] p = "blanks" ->
            IF t[i] \in {" ", "\t"} THEN RunOf(t, i, {" ", "\t"}) ELSE 0
      [] p = "newlines" ->
            IF t[i] = "\n" /\ RunOf(t, i, {"\n"}) >= i + 3
            THEN RunOf(t, i, {"\n"}) ELSE 0

\* ([^{}]*) of a match that ends before e: what stands between the last
\* "{" and the closing "}"
Group(t, e) ==
    LET o == Max({k \in 1..(e - 2) : t[k] = "{"})
    IN SubSeq(t, o + 1, e - 2)

\* what replaces the match of pattern p from position i to before e
Repl(p, t, i, e) ==
    CASE p \in {"display", "dollars"} -> <<" ", "formula", " ">>
      [] p = "inline" -> <<"formula">>
      [] p \in {"layout", "space", "newline", "rowbreak", "tilde", "command",
                "blanks"} -> <<" ">>
      [] p \in {"comment", "page", "refs", "footnote", "graphics",
                "braces"} -> <<>>
      [] p = "url" -> SubSeq(t, i + 3, e - 2)
      [] p \in {"href", "fmt", "generic"} -> Group(t, e)
      [] p = "escaped" -> <<t[i + 1]>>
      [] p = "emdash" -> <<EmDash>>
      [] p = "endash" -> <<EnDash>>
      [] p = "newlines" -> <<"\n", "\n">>

\* re.sub of pattern p on the text from position i on
RECURSIVE Sub(_, _, _)
Sub(p, t, i) ==
    IF i > Len(t) THEN <<>>
    ELSE LET e == MatchEnd(p, t, i)
         IN IF e = 0 THEN <<t[i]>> \o Sub(p, t, i + 1)
            ELSE Repl(p, t, i, e) \o Sub(p, t, e)

\* the substitutions of _clean_text in their order
CleanPasses ==
    <<"display", "dollars", "inline", "layout", "space", "newline",
      "rowbreak", "page", "refs", "footnote", "graphics", "url", "href",
      "fmt", "fmt", "fmt", "fmt", "tilde",
      "generic", "generic", "generic", "generic",
      "command", "escaped", "braces", "emdash", "endash", "blanks",
      "newlines">>

RECURSIVE ApplyPasses(_, _)
ApplyPasses(ps, t) ==
    IF ps = <<>> \/ t = <<>> THEN t
    ELSE ApplyPasses(Tail(ps), Merge(Sub(Head(ps), t, 1)))

_clean_text_chars(t) == StripChars(ApplyPasses(CleanPasses, Merge(t)))

\* re.sub(r"(?<!\\)%[^\n]*", "", text)
_strip_comments_chars(t) == Merge(Sub("comment", t, 1))

\* re.split(r"\n{2,}", raw)
RECURSIVE SplitPars(_)
SplitPars(t) ==
    LET K == {k \in 1..(Len(t) - 1) : t[k] = "\n" /\ t[k + 1] = "\n"}
    IN IF K = {} THEN <<t>>
       ELSE <<SubSeq(t, 1, Min(K) - 1)>>
            \o SplitPars(SubSeq(t, RunOf(t, Min(K), {"\n"}), Len(t)))

\* the Paragraph values _flush_text appends for the buffered text
_flush_text_chars(t) ==
    LET chunks == SplitPars(t)
        texts == [j \in 1..Len(chunks) |-> _clean_text_chars(chunks[j])]
    IN SelectSeq(texts,
                 LAMBDA c : c # <<>> /\ CharCount(c, 1, Len(c)) > 10)

\* the command names _TOKEN, the include pattern and the title and
\* document patterns of parse_latex_project look for
Structural ==
    {"section", "subsection", "subsubsection", "appendix", "begin", "end",
     "maketitle", "input", "include", "title"}

\* a main file of prose: nothing but text reaches _flush_text
Prose(t) == \A i \in 1..Len(t) : ~IsCmd(t, i, Structural)

\* a direct call of _clean_text
CleanCall ==
    /\ cpc = "call"
    /\ centry = "clean"
    /\ cvalues' = <<_clean_text_chars(ctext)>>
    /\ cpc' = "done"
    /\ UNCHANGED <<centry, ctext>>

\* parse_latex_project on a main file of prose: the values of its elements
ParseProse ==
    /\ cpc = "call"
    /\ centry = "parse"
    /\ cvalues' = _flush_text_chars(_strip_comments_chars(ctext))
    /\ cpc' = "done"
    /\ UNCHANGED <<centry, ctext>>

(***************************************************************************)
(* SpecClean: _clean_text, called directly or through parse_latex_project, *)
(* on a word followed by a piece of markup, up to MaxMid pieces of common  *)
(* markup and another piece of markup.                                     *)
(***************************************************************************)
MaxMid == 1

CmdArg(name, arg) == <<"\\", name, "{">> \o arg \o <<"}">>

MarkupFrags ==
    {<<" ", "words">>, <<".">>,
     <<"\\", ",">>, <<"\\", ";">>, <<"\\", "'", "e">>, <<"\\", " ">>,
     <<"\\", "%">>, <<"\\", "$", "5">>, <<"\\", "{">>, <<"\\", "}">>,
     <<"\\", "&">>, <<"\\", "_">>,
     CmdArg("cite", <<"key">>), CmdArg("citep", <<"key">>),
     <<"\\", "cite", "[", "p", ".", "3", "]", "{", "key", "}">>,
     CmdArg("ref", <<"key">>), CmdArg("label", <<"key">>),
     CmdArg("footnote", <<"note">>),
     CmdArg("footnote", <<"note", " ", "{", "in", "}", " ", "more">>),
     CmdArg("footnote", <<"note", " ", "{", "in", "}", " ", "more", " ",
                          "{", "in", "}", " ", "end">>),
     <<"\\", "includegraphics", "[", "w", "]", "{", "file", "}">>,
     CmdArg("textbf", <<"bold">>), CmdArg("foo", <<"arg">>), <<"\\", "foo">>,
     CmdArg("url", <<"link">>),
     <<"\\", "href", "{", "link", "}", "{", "shown", "}">>,
     <<"\\", "noindent">>, CmdArg("vspace", <<"1", "cm">>),
     <<"\\", "newline">>, <<"\\", "clearpage">>,
     <<"$", "x", "$">>, <<"$", "$", "x", "$", "$">>,
     <<"\\", "begin", "{", "equation", "}", "x",
       "\\", "end", "{", "equation", "}">>,
     <<"\\", "\\">>, <<"~">>, <<"-", "-">>, <<"-", "-", "-">>,
     <<"\n", "\n">>, <<"\n", "\n", "\n">>, <<" ", "\t">>,
     <<"%", "remark", "\n">>}

CommonFrags == {<<" ", "words">>, <<"\\", "$", "5">>, <<"\\", "foo">>}

InitClean ==
    /\ OthersIdle("clean")
    /\ \E a \in MarkupFrags \cup {<<>>}, b \in MarkupFrags \cup {<<>>},
          mid \in SeqsUpTo(CommonFrags, MaxMid) :
          ctext = <<"introductory">> \o a \o Flatten(mid) \o b
    /\ centry \in {"clean", "parse"}
    /\ centry = "parse" => Prose(ctext)
    /\ cpc = "call"
    /\ cvalues = <<>>

NextClean ==
    \/ (CleanCall /\ UNCHANGED not_clean)
    \/ (ParseProse /\ UNCHANGED not_clean)

SpecClean == InitClean /\ [][NextClean]_vars

(***************************************************************************)
(* core.py: chunk_text on a text of characters.                            *)
(***************************************************************************)
\* _SENTENCE_END.split(text): the pieces between the runs of white space
\* that follow a ".", "!" or "?"
RECURSIVE SentenceSplit(_)
SentenceSplit(t) ==
    LET K == {k \in 2..Len(t) : IsSpace(t[k]) /\ t[k - 1] \in {".", "!", "?"}}
    IN IF K = {} THEN <<t>>
       ELSE <<SubSeq(t, 1, Min(K) - 1)>>
            \o SentenceSplit(SubSeq(t, RunOf(t, Min(K), {" ", "\n", "\t"}),
                                    Len(t)))

\* a loop that never flushes
NeverFlush(cur, cur_len, added_len, max_chars) == FALSE

\* current and current_len + added_len > max_chars
MustFlush(cur, cur_len, added_len, max_chars) ==
    cur # <<>> /\ cur_len + added_len > max_chars

\* the locals of the loop
ChunkLocals(cur, cur_len, chunks) ==
    [current |-> cur, current_len |-> cur_len, chunks |-> chunks]

\* one iteration of the loop over the sentences, on the locals st
ChunkStep(st, piece, max_chars) ==
    LET sentence == StripChars(piece)
        added_len == Len(sentence) + (IF st.current # <<>> THEN 1 ELSE 0)
    IN IF sentence = <<>> THEN st
       ELSE IF MustFlush(st.current, st.current_len, added_len, max_chars)
            THEN ChunkLocals(<<sentence>>, added_len,
                             Append(st.chunks, JoinStr(st.current, <<" ">>)))
            ELSE ChunkLocals(Append(st.current, sentence),
                             st.current_len + added_len, st.chunks)

\* the loop from the i-th sentence on
RECURSIVE ChunkLoop(_, _, _, _)
ChunkLoop(sentences, i, st, max_chars) ==
    IF i > Len(sentences) THEN st
    ELSE ChunkLoop(sentences, i + 1, ChunkStep(st, sentences[i], max_chars),
                   max_chars)

\* chunk_text as one function of its arguments
chunk_text(t, max_chars) ==
    LET st == ChunkLoop(SentenceSplit(StripChars(t)), 1,
                        ChunkLocals(<<>>, 0, <<>>), max_chars)
    IN IF st.current # <<>>
       THEN Append(st.chunks, JoinStr(st.current, <<" ">>))
       ELSE st.chunks

ChunkSplit ==
    /\ kpc = "call"
    /\ ksentences' = SentenceSplit(StripChars(ktext))
    /\ ki' = 0
    /\ kcurrent' = <<>>
    /\ kcurrent_len' = 0
    /\ kchunks' = <<>>
    /\ kpc' = "loop"
    /\ UNCHANGED <<ktext, kmax>>

\* one iteration of the loop over the sentences
ChunkSentence ==
    /\ kpc = "loop"
    /\ ki < Len(ksentences)
    /\ ki' = ki + 1
    /\ \E st \in {ChunkStep(ChunkLocals(kcurrent, kcurrent_len, kchunks),
                             ksentences[ki + 1], kmax)} :
          /\ kcurrent' = st.current
          /\ kcurrent_len' = st.current_len
          /\ kchunks' = st.chunks
    /\ UNCHANGED <<ktext, kmax, kpc, ksentences>>

\* the flush after the loop, and the return
ChunkReturn ==
    /\ kpc = "loop"
    /\ ki = Len(ksentences)
    /\ kchunks' = IF kcurrent # <<>>
                  THEN Append(kchunks, JoinStr(kcurrent, <<" ">>))
                  ELSE kchunks
    /\ kpc' = "done"
    /\ UNCHANGED <<ktext, kmax, ksentences, ki, kcurrent, kcurrent_len>>

(***************************************************************************)
(* SpecChunk: chunk_text on the texts of up to MaxText characters "a", "." *)
(* and blank, with max_chars from 1 to MaxChars.                           *)
(***************************************************************************)
MaxText == 6

MaxChars == 4

InitChunk ==
    /\ OthersIdle("chunk")
    /\ ktext \in SeqsUpTo({"a", ".", " "}, MaxText)
    /\ kmax \in 1..MaxChars
    /\ kpc = "call"
    /\ ksentences = <<>>
    /\ ki = 0
    /\ kcurrent = <<>>
    /\ kcurrent_len = 0
    /\ kchunks = <<>>

NextChunk ==
    \/ (ChunkSplit /\ UNCHANGED not_chunk)
    \/ (ChunkSentence /\ UNCHANGED not_chunk)
    \/ (ChunkReturn /\ UNCHANGED not_chunk)

SpecChunk == InitChunk /\ [][NextChunk]_vars

(***************************************************************************)
(* core.py and overleaf.py: pdf_to_speech and latex_folder_to_speech.  The *)
(* calls to the TTS pipeline, to on_progress and the writing of the output *)
(* file are recorded in ptrace in the order they happen.                   *)
(***************************************************************************)
Elem(kind, value) == [kind |-> kind, value |-> value]

_READ_DIRECTLY ==
    {"Title", "Abstract", "Paragraph", "Table_caption", "Figure_caption"}

\* "Table data: "
TableData == <<"T", "a", "b", "l", "e", " ", "d", "a", "t", "a", ":", " ">>

\* the speakable text of an element, <<>> for None
_element_to_text(e) ==
    IF e.kind \in _READ_DIRECTLY \cup {"Headline"} THEN StripChars(e.value)
    ELSE IF e.kind = "Table"
         THEN LET ls == SplitLines(e.value)
                  stripped == [j \in 1..Len(ls) |-> StripChars(ls[j])]
                  kept == SelectSeq(stripped, LAMBDA l : l # <<>>)
              IN IF kept = <<>> THEN <<>>
                 ELSE TableData \o JoinStr(kept, <<".", " ", " ">>)
         ELSE <<>>

\* all_texts: the chunks of the speakable texts of the elements
AllTexts(es, max_chars) ==
    Flatten([j \in 1..Len(es) |->
                IF _element_to_text(es[j]) # <<>>
                THEN chunk_text(_element_to_text(es[j]), max_chars)
                ELSE <<>>])

\* a test that takes no text for blank
NeverBlank(t) == FALSE

\* not text.strip()
Blank(t) == StripChars(t) = <<>>

Event(ev, idx, total) == [ev |-> ev, idx |-> idx, total |-> total]

\* arguments that count the chunks from one
ProgressFromOne(idx, total) == Event("on_progress", idx + 1, total)

\* on_progress(idx, len(chunks))
ProgressCall(idx, total) == Event("on_progress", idx, total)

\* pdf_to_speech: the extracted text is blank
PdfEmpty ==
    /\ ppc = "call"
    /\ pentry = "pdf"
    /\ Blank(ptext)
    /\ ppc' = "ValueError"
    /\ UNCHANGED <<pentry, ptext, pelements, pmax, pcallback, pchunks, pidx,
                   paudio_parts, ptrace>>

\* pdf_to_speech: the chunks of the extracted text
PdfChunk ==
    /\ ppc = "call"
    /\ pentry = "pdf"
    /\ ~Blank(ptext)
    /\ pchunks' = chunk_text(ptext, pmax)
    /\ ppc' = "chunked"
    /\ UNCHANGED <<pentry, ptext, pelements, pmax, pcallback, pidx,
                   paudio_parts, ptrace>>

\* latex_folder_to_speech: the parser returned no elements
TexNoElements ==
    /\ ppc = "call"
    /\ pentry = "latex"
    /\ pelements = <<>>
    /\ ppc' = "ValueError"
    /\ UNCHANGED <<pentry, ptext, pelements, pmax, pcallback, pchunks, pidx,
                   paudio_parts, ptrace>>

\* latex_folder_to_speech: the chunks of the elements, an error when there
\* are none
TexChunk ==
    /\ ppc = "call"
    /\ pentry = "latex"
    /\ pelements # <<>>
    /\ \E all_texts \in {AllTexts(pelements, pmax)} :
          IF all_texts = <<>>
          THEN ppc' = "ValueError" /\ UNCHANGED pchunks
          ELSE ppc' = "chunked" /\ pchunks' = all_texts
    /\ UNCHANGED <<pentry, ptext, pelements, pmax, pcallback, pidx,
                   paudio_parts, ptrace>>

\* load_pipeline returns
LoadPipeline ==
    /\ ppc = "chunked"
    /\ ptrace' = Append(ptrace, Event("load_pipeline", 0, 0))
    /\ ppc' = "loop"
    /\ UNCHANGED <<pentry, ptext, pelements, pmax, pcallback, pchunks, pidx,
                   paudio_parts>>

\* load_pipeline cannot import kokoro
LoadFails ==
    /\ ppc = "chunked"
    /\ ppc' = "ImportError"
    /\ UNCHANGED <<pentry, ptext, pelements, pmax, pcallback, pchunks, pidx,
                   paudio_parts, ptrace>>

\* the loop calls synthesise for the chunk at idx
SynthCall ==
    /\ ppc = "loop"
    /\ pidx < Len(pchunks)
    /\ ptrace' = Append(ptrace, Event("synthesise", pidx, 0))
    /\ ppc' = "synthesise"
    /\ UNCHANGED <<pentry, ptext, pelements, pmax, pcallback, pchunks, pidx,
                   paudio_parts>>

\* synthesise returns audio, which is appended after a silence
SynthReturn ==
    /\ ppc = "synthesise"
    /\ ptrace' = Append(ptrace, Event("audio", pidx, 0))
    /\ paudio_parts' = IF paudio_parts # <<>>
                       THEN paudio_parts \o <<"silence", "audio">>
                       ELSE <<"audio">>
    /\ ppc' = "progress"
    /\ UNCHANGED <<pentry, ptext, pelements, pmax, pcallback, pchunks, pidx>>

\* the pipeline gives no audio: synthesise raises
SynthRaises ==
    /\ ppc = "synthesise"
    /\ ppc' = "RuntimeError"
    /\ UNCHANGED <<pentry, ptext, pelements, pmax, pcallback, pchunks, pidx,
                   paudio_parts, ptrace>>

\* the rest of the iteration: on_progress when it is given
Progress ==
    /\ ppc = "progress"
    /\ ptrace' = IF pcallback
                 THEN Append(ptrace, ProgressCall(pidx, Len(pchunks)))
                 ELSE ptrace
    /\ pidx' = pidx + 1
    /\ ppc' = "loop"
    /\ UNCHANGED <<pentry, ptext, pelements, pmax, pcallback, pchunks,
                   paudio_parts>>

\* after the loop: np.concatenate, which raises on an empty list, and the
\* writing of the output file
Save ==
    /\ ppc = "loop"
    /\ pidx = Len(pchunks)
    /\ IF paudio_parts = <<>>
       THEN ppc' = "ValueError" /\ UNCHANGED ptrace
       ELSE /\ ptrace' = Append(ptrace, Event("write", 0, 0))
            /\ ppc' = "returned"
    /\ UNCHANGED <<pentry, ptext, pelements, pmax, pcallback, pchunks, pidx,
                   paudio_parts>>

(***************************************************************************)
(* SpecPipe: pdf_to_speech on extracted texts of up to MaxSentences        *)
(* sentences or of white space, latex_folder_to_speech on up to MaxElems   *)
(* elements, with max_chars_per_chunk from 1 to MaxChars, with and without *)
(* on_progress.                                                            *)
(***************************************************************************)
MaxSentences == 3

MaxElems == 2

\* n sentences "a." set apart by blanks
Sent(n) == JoinStr([j \in 1..n |-> <<"a", ".">>], <<" ">>)

ExtractedTexts ==
    {Sent(n) : n \in 0..MaxSentences} \cup {<<" ">>, <<"\n", "\n">>}

ElemShapes ==
    {Elem("Paragraph", Sent(2)), Elem("Paragraph", <<" ">>),
     Elem("Headline", <<"1", " ", "a">>),
     Elem("Table", <<"a", "\n", "a">>), Elem("Table", <<" ", "\n">>),
     Elem("Other", <<"a", ".">>)}

InitPipe ==
    /\ OthersIdle("pipe")
    /\ \/ /\ pentry = "pdf"
          /\ ptext \in ExtractedTexts
          /\ pelements = <<>>
       \/ /\ pentry = "latex"
          /\ ptext = <<>>
          /\ pelements \in SeqsUpTo(ElemShapes, MaxElems)
    /\ pmax \in 1..MaxChars
    /\ pcallback \in BOOLEAN
    /\ ppc = "call"
    /\ pchunks = <<>>
    /\ pidx = 0
    /\ paudio_parts = <<>>
    /\ ptrace = <<>>

NextPipe ==
    \/ (PdfEmpty /\ UNCHANGED not_pipe)
    \/ (PdfChunk /\ UNCHANGED not_pipe)
    \/ (TexNoElements /\ UNCHANGED not_pipe)
    \/ (TexChunk /\ UNCHANGED not_pipe)
    \/ (LoadPipeline /\ UNCHANGED not_pipe)
    \/ (LoadFails /\ UNCHANGED not_pipe)
    \/ (SynthCall /\ UNCHANGED not_pipe)
    \/ (SynthReturn /\ UNCHANGED not_pipe)
    \/ (SynthRaises /\ UNCHANGED not_pipe)
    \/ (Progress /\ UNCHANGED not_pipe)
    \/ (Save /\ UNCHANGED not_pipe)

SpecPipe == InitPipe /\ [][NextPipe]_vars


(***************************************************************************)
(* SpecPar: two invocations of parse_latex_project.  Everything an         *)
(* invocation works on is a local of its own activation (raw, body, the    *)
(* _parse_body frames, elements, counters); the module holds compiled      *)
(* patterns and frozensets only.  The walker variables hold the locals of  *)
(* the invocation that runs and parked those of the suspended one; the     *)
(* interpreter may switch between two iterations of the scan loop.  Before *)
(* the two run together, each runs alone and its outcome is kept.          *)
(***************************************************************************)
\* the locals of the invocation that runs
Locals ==
    [main_exists |-> main_exists, raw |-> raw, body |-> body,
     status |-> status, stack |-> stack, elements |-> elements,
     counters |-> counters]

\* the locals of an invocation that has not executed a statement
Fresh(p) ==
    [main_exists |-> p.exists, raw |-> p.raw, body |-> <<>>,
     status |-> "init", stack |-> <<>>, elements |-> <<>>,
     counters |-> <<0, 0, 0>>]

\* counters at module level: resuming an invocation leaves them as they are
LoadSharing(ctx) ==
    /\ main_exists' = ctx.main_exists
    /\ raw' = ctx.raw
    /\ body' = ctx.body
    /\ status' = ctx.status
    /\ stack' = ctx.stack
    /\ elements' = ctx.elements
    /\ counters' = counters

\* an invocation resumes with its own locals
Load(ctx) ==
    /\ main_exists' = ctx.main_exists
    /\ raw' = ctx.raw
    /\ body' = ctx.body
    /\ status' = ctx.status
    /\ stack' = ctx.stack
    /\ elements' = ctx.elements
    /\ counters' = ctx.counters

\* the invocation has returned or raised
Terminated(st) == st \in {"done", "error", "notfound"}

\* what the caller gets: the returned list, or the exception
Outcome(ctx) ==
    [status |-> ctx.status,
     elements |-> IF ctx.status = "done" THEN ctx.elements ELSE <<>>]

\* an invocation that runs alone ends; the next one starts, and after the
\* second both start together
AloneReturn ==
    /\ stage \in {"first", "second"}
    /\ Terminated(status)
    /\ alone' = Append(alone, Outcome(Locals))
    /\ IF stage = "first"
       THEN /\ stage' = "second"
            /\ turn' = 2
            /\ Load(Fresh(projects[2]))
            /\ parked' = <<>>
       ELSE /\ stage' = "both"
            /\ turn' = 1
            /\ Load(Fresh(projects[1]))
            /\ parked' = <<Fresh(projects[2])>>
    /\ UNCHANGED <<projects, interleaved>>

\* the interpreter suspends the running invocation and resumes the other
Switch ==
    /\ stage = "both"
    /\ ~Terminated(parked[1].status)
    /\ parked' = <<Locals>>
    /\ Load(parked[1])
    /\ turn' = 3 - turn
    /\ interleaved' = (interleaved
                        \/ (status = "run" /\ parked[1].status = "run"))
    /\ UNCHANGED <<projects, stage, alone>>

Project(text) == [exists |-> TRUE, raw |-> Renumber(text)]

\* the projects: a missing main file; numbered sections; an appendix; a
\* titled document with an abstract; headings inside a list and a
\* transparent environment; skipped and unknown environments, a figure and
\* a table; a heading the counters have no slot for
Projects ==
    {[exists |-> FALSE, raw |-> <<>>],
     Project(HeadingOf("section") \o HeadingOf("subsection") \o <<Word(0)>>
             \o HeadingOf("section")),
     Project(HeadingOf("section") \o <<AppendixTok>> \o HeadingOf("section")
             \o HeadingOf("subsection") \o <<Word(0)>>),
     Project(TitleOf(<<Word(0)>>)
             \o <<Begin("document"), MaketitleTok, Begin("abstract"),
                  Word(0), End("abstract")>>
             \o HeadingOf("subsubsection") \o <<End("document")>>),
     Project(<<Begin("itemize"), Item>> \o HeadingOf("section")
             \o <<End("itemize"), Begin("center")>>
             \o HeadingOf("subsection") \o <<End("center")>>),
     Project(<<Begin("equation"), Word(0), End("equation"), Begin("foo")>>
             \o HeadingOf("section") \o <<End("foo"), AppendixUpper>>
             \o <<Begin("figure"), Caption, LBrace, Word(0), RBrace,
                  End("figure")>>
             \o <<Begin("table"), Caption, LBrace, Word(0), RBrace,
                  End("table")>>),
     Project(HeadingOf("section") \o HeadingOf("subsubsubsection")
             \o HeadingOf("section"))}

InitPar ==
    /\ projects \in Projects \X Projects
    /\ stage = "first"
    /\ turn = 1
    /\ parked = <<>>
    /\ alone = <<>>
    /\ interleaved = FALSE
    /\ main_exists = projects[1].exists
    /\ raw = projects[1].raw
    /\ body = <<>>
    /\ status = "init"
    /\ stack = <<>>
    /\ elements = <<>>
    /\ counters = <<0, 0, 0>>
    /\ NormIdle /\ RunsIdle /\ ExtractIdle /\ CleanIdle /\ ChunkIdle
    /\ PipeIdle /\ TableIdle /\ BraceIdle

NextPar ==
    \/ (ParseNotFound /\ UNCHANGED not_walker)
    \/ (ParseStart /\ UNCHANGED not_walker)
    \/ (NoToken /\ UNCHANGED not_walker)
    \/ (ReturnFrame /\ UNCHANGED not_walker)
    \/ (Maketitle /\ UNCHANGED not_walker)
    \/ (Appendix /\ UNCHANGED not_walker)
    \/ (OtherMatch /\ UNCHANGED not_walker)
    \/ (Heading /\ UNCHANGED not_walker)
    \/ (Abstract /\ UNCHANGED not_walker)
    \/ (Table /\ UNCHANGED not_walker)
    \/ (Figure /\ UNCHANGED not_walker)
    \/ (List /\ UNCHANGED not_walker)
    \/ (Transparent /\ UNCHANGED not_walker)
    \/ (Skip /\ UNCHANGED not_walker)
    \/ (Unknown /\ UNCHANGED not_walker)
    \/ (AloneReturn
        /\ UNCHANGED <<norm_vars, runs_vars, extract_vars, clean_vars,
                       chunk_vars, pipe_vars, table_vars, brace_vars>>)
    \/ (Switch
        /\ UNCHANGED <<norm_vars, runs_vars, extract_vars, clean_vars,
                       chunk_vars, pipe_vars, table_vars, brace_vars>>)

SpecPar == InitPar /\ [][NextPar]_vars


(***************************************************************************)
(* SpecTable: _parse_table_env on the body of a table environment and a    *)
(* list that may hold elements already.                                    *)
(***************************************************************************)
TableCall ==
    /\ tpc = "start"
    /\ tlist' = tlist \o _parse_table_env(tbody)
    /\ tpc' = "done"
    /\ UNCHANGED <<tbody, tgiven>>

MaxTable == 3

\* a tabular-like environment: begin, arguments, two cells in a row
Tabular(name, args) ==
    <<Begin(name)>> \o args \o <<Word(0), Amp, Word(0), End(name)>>

BraceArg == <<LBrace, Word(0), RBrace>>

\* the constructs of a table body: captions (plain, with a short form,
\* empty), tabular environments (with a column specification; with a
\* position argument; with a blank line before the specification; tabularx
\* and tabular* with a width before the specification; one nested in a cell
\* of another; one without cells), a rule and a row separator, notes, the
\* end of the table environment
TableFrags ==
    {<<Caption>> \o BraceArg,
     <<Caption, LBrack, Word(0), RBrack>> \o BraceArg,
     <<Caption, LBrace, RBrace>>,
     Tabular("tabular", BraceArg),
     Tabular("tabular", <<LBrack, Word(0), RBrack>> \o BraceArg),
     Tabular("tabular", <<Par>> \o BraceArg),
     Tabular("tabularx", BraceArg \o BraceArg),
     Tabular("tabular*", BraceArg \o BraceArg),
     <<Begin("tabular")>> \o BraceArg
        \o <<Word(0), Amp>> \o Tabular("tabular", BraceArg)
        \o <<RowSep, Word(0), End("tabular")>>,
     <<Begin("tabular")>> \o BraceArg \o <<Rule, End("tabular")>>,
     <<Word(0)>>,
     <<End("table")>>}

InitTable ==
    /\ \E b \in SeqsUpTo(TableFrags, MaxTable) : tbody = Renumber(Flatten(b))
    /\ tgiven \in {<<>>, <<Element("Paragraph", <<>>, <<Word(100)>>)>>}
    /\ tlist = tgiven
    /\ tpc = "start"
    /\ OthersIdle("table")

NextTable == TableCall /\ UNCHANGED not_table

SpecTable == InitTable /\ [][NextTable]_vars


(***************************************************************************)
(* _extract_braced called on a string at a position of the string, as its  *)
(* callers do: after a match, after a skipped argument, at the end.        *)
(***************************************************************************)
ExtractCall ==
    /\ bpc = "start"
    /\ bout' = _extract_braced_str(btext, bpos)
    /\ bpc' = "done"
    /\ UNCHANGED <<btext, bpos>>

MaxBrace == 6

\* the characters that matter to the scan, and one that does not
BraceChars == {"{", "}", "\\", "a"}

InitBrace ==
    /\ btext \in SeqsUpTo(BraceChars, MaxBrace)
    /\ bpos \in 0..Len(btext)
    /\ bout = [content |-> <<>>, pos |-> 0]
    /\ bpc = "start"
    /\ OthersIdle("brace")

NextBrace == ExtractCall /\ UNCHANGED not_brace

SpecBrace == InitBrace /\ [][NextBrace]_vars

(***************************************************************************)
(* Properties of the LaTeX walker.                                         *)
(***************************************************************************)
\* ids of the prose words of an element
WordsOf(e) == {e.text[i].id : i \in {j \in 1..Len(e.text) : e.text[j].k = "word"}}

\* 0-based index in the body of the prose word with this id
BodyPos(id) == CHOOSE j \in 0..(Len(body) - 1) : body[j + 1] = Word(id)

\* the body-level items of a text from pos on, as 0-based ranges [lo, hi):
\* prose chunks, headings with their argument, whole environments, switches
RECURSIVE BodyItems(_, _)
BodyItems(text, pos) ==
    IF pos >= Len(text) THEN <<>>
    ELSE LET m == _TOKEN(text, pos)
         IN IF m = -1 THEN <<[lo |-> pos, hi |-> Len(text)]>>
            ELSE LET t == text[m + 1]
                     arg == _skip_optional_arg(text, m + 1)
                     hi == IF t.k = "heading"
                           THEN _extract_braced(text, arg).pos
                           ELSE IF t.k = "begin"
                                THEN _find_env_end(text, arg,
                                                   StripStar(t.name)).pos
                                ELSE m + 1
                 IN (IF m > pos THEN <<[lo |-> pos, hi |-> m]>> ELSE <<>>)
                    \o <<[lo |-> m, hi |-> hi]>> \o BodyItems(text, hi)

\* the body-level item that holds body position p
ItemAt(p) ==
    LET items == BodyItems(body, 0)
    IN items[CHOOSE k \in 1..Len(items) : items[k].lo <= p /\ p < items[k].hi]

\* C1: the returned elements are in document order: when the body-level item
\* of one word ends before the item of another word begins, no element
\* holding the second word precedes an element holding the first.
C1_DocumentOrder ==
    status = "done" =>
        \A i \in 1..Len(elements), j \in 1..Len(elements) :
            i < j =>
                \A a \in WordsOf(elements[i]), b \in WordsOf(elements[j]) :
                    ~(ItemAt(BodyPos(b)).hi <= ItemAt(BodyPos(a)).lo)

\* environments whose content the walker descends into
Recursing(name) ==
    \/ name \in {"itemize", "enumerate", "description"}
    \/ name \in _TRANSPARENT_ENVS
    \/ name \notin Structured \cup _SKIP_ENVS

\* a body in which the walker scans every token: prose, closed headings,
\* \appendix switches and environments it descends into
WalkedBody ==
    /\ \A j \in 1..Len(body) :
          /\ body[j].k \in {"word", "heading", "lbrace", "rbrace", "appendix",
                            "begin", "end"}
          /\ body[j].k = "appendix" => body[j] = AppendixTok
          /\ body[j].k \in {"begin", "end"} => Recursing(body[j].name)
          /\ body[j].k = "heading" =>
                /\ SubCount(body[j].name) <= 2
                /\ j < Len(body)
                /\ body[j + 1].k = "lbrace"
          /\ body[j].k = "lbrace" =>
                /\ j + 2 <= Len(body)
                /\ body[j + 1].k = "word"
                /\ body[j + 2].k = "rbrace"

\* 1-based body index of the heading command a Headline element came from
CmdIndex(e) == BodyPos(CHOOSE id \in WordsOf(e) : TRUE) - 1

\* 1-based indices of the \appendix switches before index j
SwitchesBefore(j) == {q \in 1..(j - 1) : body[q] = AppendixTok}

Headlines == {i \in 1..Len(elements) : elements[i].kind = "Headline"}

LetterMode(label) == \E k \in 1..Len(Letter) : label[1] = Letter[k]

\* C2: once an \appendix switch has been walked, every heading after it in
\* document order is labelled in letter mode, nested environments included.
C2_AppendixNeverClears ==
    (status = "done" /\ WalkedBody) =>
        \A i \in Headlines :
            SwitchesBefore(CmdIndex(elements[i])) # {}
                => LetterMode(elements[i].label)

\* the state is about to process a heading of level 0..2
AtHeading ==
    /\ Running
    /\ Match(Top) # -1
    /\ Top.text[Match(Top) + 1].k = "heading"
    /\ SubCount(Top.text[Match(Top) + 1].name) <= 2

HeadingLevel == SubCount(Top.text[Match(Top) + 1].name)

\* the label the formatting rules give for counters c
LabelFor(level, c, appendix) ==
    LET first == IF appendix THEN <<Letter[c[1] + 1]>> ELSE Dec(c[1])
    IN CASE level = 0 -> first \o <<".">>
         [] level = 1 -> first \o <<".">> \o Dec(c[2])
         [] level = 2 -> first \o <<".">> \o Dec(c[2]) \o <<".">> \o Dec(c[3])

C3_Step ==
    AtHeading =>
        LET L == HeadingLevel
        IN /\ counters'[L + 1] = counters[L + 1] + 1
           /\ \A i \in 1..3 : i > L + 1 => counters'[i] = 0
           /\ \A i \in 1..3 : i < L + 1 => counters'[i] = counters[i]
           /\ elements' # <<>>
           /\ elements'[Len(elements')].kind = "Headline"
           /\ elements'[Len(elements')].label
                 = LabelFor(L, counters', Top.in_appendix)

C3_ExampleBody ==
    Renumber(Flatten(<<HeadingOf("section"), HeadingOf("subsection"),
                       HeadingOf("section"), HeadingOf("subsection")>>))

LabelsOut == [i \in 1..Len(elements) |-> elements[i].label]

C3_Example ==
    (status = "done" /\ body = C3_ExampleBody) =>
        LabelsOut = << <<"1", ".">>, <<"1", ".", "1">>,
                       <<"2", ".">>, <<"2", ".", "1">> >>

\* C3: a heading of level L in 0..2 adds one to counters[L], zeroes the
\* counters of deeper levels, leaves the shallower ones, and its Headline
\* label is formatted from the updated counters; the four-heading example
\* is labelled "1.", "1.1", "2.", "2.1".
C3_HeadingCounters == [][C3_Step]_vars /\ []C3_Example

C3_Witness ==
    /\ status = "done"
    /\ body = C3_ExampleBody
    /\ Len(elements) = 4
    /\ elements[3].label = <<"2", ".">>
    /\ elements[4].label = <<"2", ".", "1">>
    /\ counters = <<2, 1, 0>>

\* number of heading commands named cmd at body indices lo+1 .. hi
CountCmd(cmd, lo, hi) ==
    Cardinality({q \in (lo + 1)..hi : body[q] = Cmd(cmd)})

\* C4: after an \appendix switch the first following \section is labelled
\* "A.", the second "B.", and a first \subsection under the first appendix
\* section "A.1", whatever was numbered before the switch.
C4_AppendixRestart ==
    (status = "done" /\ WalkedBody) =>
        \A i \in Headlines :
            LET h == CmdIndex(elements[i])
                S == SwitchesBefore(h)
            IN S # {} =>
                  LET q == Max(S)
                      n == CountCmd("section", q, h)
                  IN /\ (body[h] = Cmd("section") /\ n \in {1, 2})
                        => elements[i].label = <<Letter[n + 1], ".">>
                     /\ (/\ body[h] = Cmd("subsection")
                         /\ n = 1
                         /\ CountCmd("subsection", q, h) = 1)
                        => elements[i].label = <<"A", ".", "1">>

\* 1-based indices of the malformations of the main file: a brace that is
\* never closed, an environment that is never ended or has an unrecognised
\* name, an inclusion of a file that does not exist
Malformed ==
    {i \in 1..Len(raw) :
        \/ /\ raw[i].k = "lbrace"
           /\ \A q \in (i + 1)..Len(raw) : raw[q].k # "rbrace"
        \/ /\ raw[i].k = "begin"
           /\ \/ \A q \in (i + 1)..Len(raw) :
                    ~(raw[q].k = "end"
                      /\ StripStar(raw[q].name) = StripStar(raw[i].name))
              \/ StripStar(raw[i].name)
                    \notin Structured \cup _TRANSPARENT_ENVS \cup _SKIP_ENVS
        \/ /\ raw[i].k = "input"
           /\ raw[i].name \notin DOMAIN Files}

\* the word at index i follows the start of a construct whose content is
\* not prose: an optional argument, or an environment that is not walked
Shielded(i) ==
    \E q \in 1..(i - 1) :
        \/ raw[q].k = "lbrack"
        \/ raw[q].k = "begin" /\ ~Recursing(StripStar(raw[q].name))

Present(id) == \E k \in 1..Len(elements) : id \in WordsOf(elements[k])

NoDeepHeading ==
    \A i \in 1..Len(raw) : raw[i].k = "heading" => SubCount(raw[i].name) <= 2

\* C5: unclosed braces, unended or unrecognised environments and missing
\* include files never raise, and the prose before the first of them is
\* still in the returned elements.
C5_GracefulDegradation ==
    /\ NoDeepHeading => status # "error"
    /\ (status = "done" /\ Malformed # {}) =>
          \A i \in 1..(Min(Malformed) - 1) :
              (raw[i].k = "word" /\ ~Shielded(i)) => Present(i)

C5_Witness ==
    /\ status = "done"
    /\ Len(raw) >= 2
    /\ raw[1].k = "word"
    /\ Malformed # {}
    /\ Min(Malformed) > 1
    /\ raw[Min(Malformed)].k = "begin"
    /\ Present(1)

(***************************************************************************)
(* Properties of _remove_short_runs.                                       *)
(***************************************************************************)
Returned == {rout[i] : i \in 1..Len(rout)}

\* C6: a leading run of six short paragraphs is kept, and a later run of
\* eight short paragraphs that follows a long paragraph is removed.
C6_LeadingRunKept ==
    \A b \in 1..MaxCount, d \in 0..MaxCount :
        (rpc = "done" /\ rparas = RunList(6, b, 8, d)) =>
            /\ \A i \in 1..6 : rparas[i] \in Returned
            /\ \A i \in (6 + b + 1)..(6 + b + 8) : rparas[i] \notin Returned

\* length of the maximal run of paragraphs shorter than 60 characters that
\* holds index i
ShortRunLength(i) ==
    LET lo == Min({j \in 1..i : \A t \in j..i : Len(rparas[t]) < 60})
        hi == Max({j \in i..Len(rparas) : \A t \in i..j : Len(rparas[t]) < 60})
    IN hi - lo + 1

KeptByRule(i) == Len(rparas[i]) >= 60 \/ ShortRunLength(i) < 5

IndexIn(ps, p) == CHOOSE i \in 1..Len(ps) : ps[i] = p

RECURSIVE SplitBlank(_)
SplitBlank(t) ==
    LET B == {j \in 1..(Len(t) - 1) : t[j] = "\n" /\ t[j + 1] = "\n"}
    IN IF B = {} THEN <<t>>
       ELSE <<SubSeq(t, 1, Min(B) - 1)>>
            \o SplitBlank(SubSeq(t, Min(B) + 2, Len(t)))

OutParas == IF result = <<>> THEN <<>> ELSE SplitBlank(result)

\* number of blank-line separators of the returned text
Separators == IF result = <<>> THEN 0 ELSE Len(SplitBlank(result)) - 1

NoiseByRule(p) ==
    \/ p = <<>>
    \/ Len(p) \in 1..4 /\ \A i \in 1..Len(p) : IsDigit(p[i])
    \/ Len(p) <= 3 /\ p[Len(p)] \notin {".", "!", "?"}

\* the filter has run and the run removal has not: a three-character
\* paragraph that ends a sentence is still there
PunctuatedKept ==
    npc = "runs" =>
        \A i \in 1..Len(merged) :
            (Len(merged[i]) = 3 /\ merged[i][3] \in {".", "!", "?"})
                => \E k \in 1..Len(cleaned) : cleaned[k] = merged[i]

HasLongLine == \E i \in 1..Len(lines) : Len(StripChars(lines[i])) > 20

\* C8 as stated: for every raw text, no paragraph of the returned text is
\* noise, and the filter keeps "No.".
C8_NoNoiseAnyInput ==
    /\ npc = "done" =>
          \A k \in 1..Len(OutParas) : ~NoiseByRule(OutParas[k])
    /\ PunctuatedKept

\* C8: for raw text with at least one line longer than 20 characters, no
\* paragraph of the returned text is empty, a bare 1 to 4 digit number or
\* at most 3 characters long without final punctuation, and the filter
\* keeps a 3-character paragraph with final punctuation.
C8_NoNoise ==
    /\ (npc = "done" /\ HasLongLine) =>
          \A k \in 1..Len(OutParas) : ~NoiseByRule(OutParas[k])
    /\ PunctuatedKept

C8_Witness ==
    /\ npc = "done"
    /\ HasLongLine
    /\ \E i \in 1..Len(merged) : merged[i] = <<"4", "2">>
    /\ \E k \in 1..Len(OutParas) : OutParas[k] = NoDot
    /\ \A k \in 1..Len(OutParas) : OutParas[k] # <<"4", "2">>

NonBlank(i) == StripChars(lines[i]) # <<>>

\* 1-based indices of the lines that start a block
BlockStarts ==
    {i \in 1..Len(lines) : NonBlank(i) /\ (i = 1 \/ ~NonBlank(i - 1))}

\* the raw text is two or more blocks of full-width lines
FullWidthBlocks ==
    /\ \A i \in 1..Len(lines) :
          NonBlank(i) =>
              /\ Len(StripChars(lines[i])) > 20
              /\ ~(5 * Len(StripChars(lines[i])) < 3 * typical_len)
    /\ Cardinality(BlockStarts) >= 2

\* a block ends in a hyphen and the next one begins with a lowercase letter
HyphenBreak ==
    \E j \in 1..(Len(paragraphs) - 1) :
        /\ paragraphs[j][Len(paragraphs[j])] = "-"
        /\ IsLower(paragraphs[j + 1][1])

\* five or more consecutive blocks are shorter than 60 characters each
ShortBlockRun ==
    \E j \in 1..(Len(paragraphs) - 4) :
        \A t \in j..(j + 4) : Len(paragraphs[t]) < 60

\* C9 as stated: k >= 2 blocks of full-width lines give exactly k-1
\* separators, whatever the blocks hold.
C9_OneSeparatorPerBreak ==
    (npc = "done" /\ FullWidthBlocks) =>
        Separators = Cardinality(BlockStarts) - 1

\* C9: k >= 2 blocks of full-width lines become k paragraphs, and give
\* exactly k-1 separators unless a block ending in a hyphen is followed by
\* one beginning with a lowercase letter or five or more consecutive blocks
\* are shorter than 60 characters.
C9_SeparatorsKept ==
    (npc = "done" /\ FullWidthBlocks) =>
        /\ Len(paragraphs) = Cardinality(BlockStarts)
        /\ (~HyphenBreak /\ ~ShortBlockRun)
              => Separators = Cardinality(BlockStarts) - 1

C9_Witness ==
    /\ npc = "done"
    /\ FullWidthBlocks
    /\ Cardinality(BlockStarts) = 3
    /\ \E i \in 2..(Len(lines) - 1) : ~NonBlank(i) /\ ~NonBlank(i + 1)
    /\ ~HyphenBreak
    /\ Separators = 2

\* the items 1..n cut into groups after every item that IsEnd holds of,
\* each group being the concatenation of the pieces of its items
GroupJoin(n, IsEnd(_), Piece(_)) ==
    LET Ends == {i \in 1..n : IsEnd(i)}
        EndAt(k) == IF k = 0 THEN 0
                    ELSE CHOOSE e \in Ends :
                            Cardinality({x \in Ends : x <= e}) = k
    IN [k \in 1..Cardinality(Ends) |->
           Flatten([t \in 1..(EndAt(k) - EndAt(k - 1)) |->
                       Piece(EndAt(k - 1) + t)])]

\* line i closes its paragraph: it is short, or last, or a blank line follows
LineEnds(i) ==
    /\ NonBlank(i)
    /\ \/ 5 * Len(StripChars(lines[i])) < 3 * typical_len
       \/ i = Len(lines)
       \/ ~NonBlank(i + 1)

\* what line i gives to its paragraph
LinePiece(i) ==
    LET t == StripChars(lines[i])
    IN IF t = <<>> \/ LineEnds(i) THEN t
       ELSE IF t[Len(t)] = "-" THEN SubSeq(t, 1, Len(t) - 1)
            ELSE t \o <<" ">>

\* paragraph j is rejoined with the next one
Rejoined(j) ==
    /\ j < Len(paragraphs)
    /\ paragraphs[j][Len(paragraphs[j])] = "-"
    /\ IsLower(paragraphs[j + 1][1])

ParaEnds(j) == ~Rejoined(j)

ParaPiece(j) ==
    IF Rejoined(j) THEN SubSeq(paragraphs[j], 1, Len(paragraphs[j]) - 1)
    ELSE paragraphs[j]

\* C10: inside a paragraph a line ending in "-" loses the hyphen and takes
\* the next line without a blank, other lines are joined by one blank;
\* adjacent paragraphs are merged, hyphen removed, exactly when the first
\* ends in "-" and the next begins with a lowercase letter; "occupa-" and
\* "tional" give "occupational".
C10_HyphenRejoin ==
    /\ _join_lines(<<Occupa, Tional>>) = Occupational
    /\ (npc \in {"merge", "filter", "runs", "join", "done"} /\ HasLongLine)
          => paragraphs = GroupJoin(Len(lines), LineEnds, LinePiece)
    /\ (npc \in {"filter", "runs", "join", "done"} /\ HasLongLine)
          => merged = GroupJoin(Len(paragraphs), ParaEnds, ParaPiece)

C10_Witness ==
    /\ npc = "done"
    /\ \E j \in 1..(Len(paragraphs) - 1) :
          paragraphs[j] = Occupa /\ paragraphs[j + 1] = Tional
    /\ \E k \in 1..Len(OutParas) : OutParas[k] = Occupational

(***************************************************************************)
(* Properties of extract_text.                                             *)
(***************************************************************************)
\* the k-th index of the requested range, k from 0
RequestedAt(k) ==
    CASE pages.kind = "none" -> k
      [] pages.kind = "tuple" -> pages.start + k
      [] pages.kind = "range" -> pages.start + k * pages.step

\* whether the requested range has a k-th index
Requests(k) ==
    CASE pages.kind = "none" -> k < Len(doc)
      [] pages.kind = "tuple" -> pages.start + k < pages.stop
      [] pages.kind = "range" ->
            IF pages.step > 0 THEN pages.start + k * pages.step < pages.stop
            ELSE pages.start + k * pages.step > pages.stop

\* the positions of the requested range whose index is no page
BadRequests ==
    {k \in 0..(MaxPages + 3) :
        /\ Requests(k)
        /\ RequestedAt(k) < 0 \/ RequestedAt(k) >= Len(doc)}

ExtractEnded == xpc \in {"FileNotFoundError", "IndexError", "returned"}

\* C11: extract_text raises FileNotFoundError when the path does not exist,
\* whatever the selection; otherwise it raises IndexError, naming the first
\* requested index that is below zero or not below the page count together
\* with the page count, exactly when the requested range holds such an
\* index; otherwise it returns text and raises nothing.
C11_ErrorOutcome ==
    ExtractEnded =>
        IF ~pdf_exists THEN xpc = "FileNotFoundError" /\ xerr = <<>>
        ELSE IF BadRequests # {}
             THEN /\ xpc = "IndexError"
                  /\ xerr = <<RequestedAt(Min(BadRequests)), Len(doc)>>
             ELSE xpc = "returned" /\ xerr = <<>>

\* a selection that reads both pages of a document and then asks for a third
C11_Witness ==
    /\ xpc = "IndexError"
    /\ xerr = <<2, 2>>
    /\ Len(raw_parts) = 2
    /\ pages.kind = "tuple"

(***************************************************************************)
(* Properties of the title.                                                *)
(***************************************************************************)
\* the text parse_latex_project works on
Expanded == _expand_includes(_strip_comments(raw), Files, IncludeDepth)

\* what stands before \begin{document}, all of the text when there is none
PreambleOf(text) ==
    IF IndexOf(text, Begin("document")) = -1 THEN text
    ELSE Slice(text, 0, IndexOf(text, Begin("document")))

\* the cleaned argument of the title directive at index j of the preamble
TitleArgAt(preamble, j) ==
    LET a == SkipWs(preamble, _skip_optional_arg(preamble, j + 1))
    IN Strip(_clean_text(_extract_braced(preamble, a).content))

\* the preamble holds a title directive whose cleaned argument is not empty
HoldsTitle(preamble) ==
    \E j \in 0..(Len(preamble) - 1) :
        /\ preamble[j + 1].k = "title"
        /\ TitleArgAt(preamble, j) # <<>>

TitleIndices == {i \in 1..Len(elements) : elements[i].kind = "Title"}

\* \title{Hello World} \begin{document} \end{document}
C12_ExampleRaw ==
    Renumber(TitleOf(<<Word(0)>>) \o <<Begin("document"), End("document")>>)

\* C12: the result of parse_latex_project holds at most one Title, and only
\* as its first element; it holds one exactly when the preamble holds a
\* title directive whose cleaned argument is not empty; a preamble with
\* \title{Hello World} before an empty document body gives exactly the
\* one element Title "Hello World".
C12_TitleFirst ==
    status = "done" =>
        /\ TitleIndices \subseteq {1}
        /\ TitleIndices = {1} <=> HoldsTitle(PreambleOf(Expanded))
        /\ raw = C12_ExampleRaw =>
              elements = <<Element("Title", <<>>, <<Word(3)>>)>>

(***************************************************************************)
(* Properties of _clean_text.                                              *)
(***************************************************************************)
\* the strings of a value
Strings(v) == {v[j] : j \in 1..Len(v)}

\* the strings of all values
Output == UNION {Strings(cvalues[j]) : j \in 1..Len(cvalues)}

\* C13: no element value parse_latex_project returns contains a backslash,
\* whatever backslash sequences the main file holds: commands made of
\* letters, escaped special characters, and control symbols such as \, \;
\* \' or a backslash before a blank.
C13_NoBackslash ==
    (cpc = "done" /\ centry = "parse") => "\\" \notin Output

\* the names of the commands whose content is dropped, and the strings of
\* their arguments in the texts
DroppedWords ==
    {"cite", "citep", "ref", "label", "footnote", "includegraphics",
     "key", "note", "in", "more", "end", "file", "w", "p", "3"}

\* C14: _clean_text removes citation, reference, label, footnote and
\* figure-inclusion commands together with their arguments, also a footnote
\* whose argument holds two nested brace groups and a citation with an
\* optional argument before its key: nothing of the command name or of the
\* argument is in the output, and the text around the command is kept.
C14_RemovedEntirely ==
    (cpc = "done" /\ centry = "clean") =>
        /\ Output \cap DroppedWords = {}
        /\ \A f \in {CmdArg("cite", <<"key">>), CmdArg("footnote", <<"note">>)} :
              ctext = <<"introductory">> \o f \o <<" ", "words">>
                  => cvalues = <<<<"introductory", " ", "words">>>>

(***************************************************************************)
(* Properties of chunk_text.                                               *)
(***************************************************************************)
\* the sentences of the text: the stripped pieces that are not empty
Sentences ==
    {StripChars(ksentences[j]) : j \in 1..Len(ksentences)} \ {<<>>}

TooLong(c) == Len(c) > kmax

\* C15: every chunk chunk_text returns is non-empty; a chunk is longer than
\* max_chars only if it is one sentence that itself is longer than
\* max_chars; a text of white space only gives no chunks.
C15_ChunkBound ==
    kpc = "done" =>
        /\ \A j \in 1..Len(kchunks) :
              /\ kchunks[j] # <<>>
              /\ TooLong(kchunks[j]) => kchunks[j] \in Sentences
        /\ StripChars(ktext) = <<>> => kchunks = <<>>

\* a sentence longer than max_chars became a chunk of its own, next to a
\* chunk within the bound
C15_Witness ==
    /\ kpc = "done"
    /\ \E j \in 1..Len(kchunks) : TooLong(kchunks[j])
    /\ \E j \in 1..Len(kchunks) : ~TooLong(kchunks[j])

(***************************************************************************)
(* Properties of pdf_to_speech and latex_folder_to_speech.                 *)
(***************************************************************************)
\* the calls of one kind, in the order they were made
Calls(ev) == SelectSeq(ptrace, LAMBDA e : e.ev = ev)

\* the on_progress calls made before position p of the trace
ProgressBefore(p) ==
    SelectSeq(SubSeq(ptrace, 1, p - 1), LAMBDA e : e.ev = "on_progress")

\* C16: with n chunks, on_progress is called exactly n times, with the
\* arguments (0, n), (1, n), ..., (n-1, n) in this order; the call for
\* chunk i comes after synthesise has returned for chunk i and before
\* synthesise is called for chunk i+1; the last call comes before the
\* output file is written.
C16_ProgressCalls ==
    pcallback =>
        /\ \A j \in 1..Len(Calls("on_progress")) :
              Calls("on_progress")[j]
                  = Event("on_progress", j - 1, Len(pchunks))
        /\ Len(Calls("on_progress")) <= Len(pchunks)
        /\ ppc = "returned" => Len(Calls("on_progress")) = Len(pchunks)
        /\ \A p \in 1..Len(ptrace) :
              /\ ptrace[p].ev = "on_progress" =>
                    /\ \E q \in 1..(p - 1) :
                          ptrace[q] = Event("audio", ptrace[p].idx, 0)
                    /\ \A q \in 1..(p - 1) :
                          ptrace[q].ev = "synthesise"
                              => ptrace[q].idx <= ptrace[p].idx
              /\ ptrace[p].ev = "synthesise" =>
                    Len(ProgressBefore(p)) = ptrace[p].idx
              /\ ptrace[p].ev = "write" =>
                    Len(ProgressBefore(p)) = Len(pchunks)

\* a call of latex_folder_to_speech that returned after three chunks
C16_Witness ==
    /\ ppc = "returned"
    /\ pentry = "latex"
    /\ pcallback
    /\ Len(pchunks) = 3
    /\ Len(Calls("on_progress")) = 3

\* zero elements, no speakable text, or a blank extracted text
EmptyContent ==
    \/ pentry = "pdf" /\ StripChars(ptext) = <<>>
    \/ /\ pentry = "latex"
       /\ \A j \in 1..Len(pelements) : _element_to_text(pelements[j]) = <<>>

\* C17: pdf_to_speech raises ValueError when the extracted text is blank,
\* latex_folder_to_speech when the parser returns no elements or when no
\* element yields speakable text; when the error is raised the pipeline has
\* not been loaded, no chunk has been synthesised, on_progress has not been
\* called and no output file has been written.
C17_EmptyContent ==
    /\ EmptyContent =>
          /\ ppc \in {"call", "ValueError"}
          /\ ptrace = <<>>
          /\ paudio_parts = <<>>
    /\ ppc = "ValueError" => EmptyContent /\ ptrace = <<>>

\* elements were parsed but none of them can be spoken
C17_Witness ==
    /\ ppc = "ValueError"
    /\ pentry = "latex"
    /\ Len(pelements) = 2


(***************************************************************************)
(* C18 - two invocations share no mutable state.                           *)
(***************************************************************************)
\* the locals of invocation i while the two run together
ContextOf(i) == IF turn = i THEN Locals ELSE parked[1]

\* the step is one of the invocation that runs
OwnStep == turn' = turn /\ stage' = stage

\* the first activation of the walker of an invocation that has just
\* started, with the counters it was given
StartsFresh ==
    OwnStep /\ status = "init" /\ status' = "run"
        => /\ counters' = <<0, 0, 0>>
           /\ Len(stack') = 1
           /\ stack'[1].in_appendix = FALSE

\* a step of the running invocation leaves the suspended one as it was
LeavesOther == OwnStep => parked' = parked

\* C18: when two invocations of parse_latex_project run with their steps
\* interleaved in any order, each ends with the outcome it has when it runs
\* alone; each starts on counters [0, 0, 0] outside the appendix, and no
\* step of one changes the counters, the appendix flag or any other local
\* of the other.
C18_Independent ==
    [][/\ stage' = "both"
          => \A i \in 1..2 :
                Terminated(ContextOf(i)'.status)
                    => Outcome(ContextOf(i)') = alone'[i]
       /\ StartsFresh
       /\ LeavesOther]_vars

\* both have returned, after one was suspended inside the walker while the
\* other was inside it too; the two numbered their headings differently and
\* one of them switched to the appendix
C18_Witness ==
    /\ stage = "both"
    /\ interleaved
    /\ status = "done"
    /\ parked[1].status = "done"
    /\ counters # <<0, 0, 0>>
    /\ parked[1].counters # <<0, 0, 0>>
    /\ counters # parked[1].counters
    /\ \E j \in 1..Len(raw) : raw[j] = AppendixTok


(***************************************************************************)
(* C19 - heading levels.                                                   *)
(***************************************************************************)
\* the scan loop of the running activation has matched a heading command
HeadingMatched ==
    /\ Running
    /\ Match(Top) # -1
    /\ Top.text[Match(Top) + 1].k = "heading"

\* the level computed from the matched command name: cmd.count("sub")
MatchedLevel == SubCount(Top.text[Match(Top) + 1].name)

\* C19: for every token the combined pattern matches as a heading command
\* the level computed from its name is 0, 1 or 2 and the counter update
\* completes: the walker goes on, with the counter of that level one higher.
C19_HeadingLevels ==
    [][HeadingMatched
          => /\ MatchedLevel \in 0..2
             /\ status' = "run"
             /\ counters' = Bump(counters, MatchedLevel)]_vars


(***************************************************************************)
(* C20 - the walker terminates.                                            *)
(***************************************************************************)
\* the nesting depth of the environments of a text, an environment being
\* what _find_env_end delimits: to its matching end, or to the end of text
RECURSIVE NestingDepth(_)
NestingDepth(text) ==
    LET B == {j \in 0..(Len(text) - 1) : text[j + 1].k = "begin"}
    IN IF B = {} THEN 0
       ELSE 1 + Max({NestingDepth(
                        _find_env_end(text, _skip_optional_arg(text, j + 1),
                                      StripStar(text[j + 1].name)).content) :
                     j \in B})

\* an iteration of the scan loop of the running activation that ends without
\* a call: the activation is still the running one
IterationEnds ==
    Running /\ status' = "run" /\ Len(stack') = Len(stack)

\* an iteration that calls _parse_body on the content of an environment
RecursiveCall ==
    Running /\ Len(stack') > Len(stack)

\* what is left to scan: twice the text ahead of each activation, plus one
\* for its return; nothing once parse_latex_project has returned or raised
Variant ==
    IF status = "run"
    THEN SumSeq([i \in 1..Len(stack) |->
                    2 * (Len(stack[i].text) - stack[i].pos) + 1])
    ELSE 0

\* C20: the body walker terminates on every finite input.  Every iteration
\* of the scan loop that is followed by another test of the loop condition
\* moves the position strictly forward (the iteration that finds no more
\* token leaves the loop: the position stands at the end of the text), also
\* past a heading without a braced argument, an unclosed optional argument or
\* an environment without an end; the caller of a recursive call resumes
\* strictly further on and the call receives a text strictly shorter than
\* its caller's; no position passes the end of its text, so that what is
\* left to scan is a natural number that every step of the walker makes
\* smaller; and there are never more activations than the environments nest
\* plus one.
C20_Terminates ==
    [][/\ IterationEnds => Top'.pos > Top.pos
       /\ RecursiveCall
             => /\ Len(stack') = Len(stack) + 1
                /\ Len(Top'.text) < Len(Top.text)
                /\ stack'[Len(stack)].pos > Top.pos
       /\ \A i \in 1..Len(stack') : stack'[i].pos <= Len(stack'[i].text)
       /\ status = "run" => Variant' < Variant
       /\ Len(stack') <= 1 + NestingDepth(body')]_vars

\* two recursive calls deep, inside environments that have no end, with the
\* innermost scan loop past a heading
C20_Witness ==
    /\ Len(stack) = 3
    /\ Top.pos > 0
    /\ \A j \in 1..Len(body) : body[j].k # "end"
    /\ \E j \in 1..Len(Top.text) : Top.text[j].k = "heading"
    /\ elements # <<>>


(***************************************************************************)
(* C21 - inclusion expansion.                                              *)
(***************************************************************************)
\* C21: for any files and any inclusion directives among them, a file that
\* includes itself or two files that include each other among them, the
\* expansion finishes and parse_latex_project goes on to the body: the step
\* that reads an existing main file never ends in an error.
C21_ExpansionReturns ==
    [][(status = "init" /\ main_exists) => status' = "run"]_vars


(***************************************************************************)
(* C22 - skipped environments.                                             *)
(***************************************************************************)
\* the scan loop of the running activation has matched the begin of an
\* environment of the skip set
AtSkipEnv ==
    /\ Running
    /\ IsBegin(Top, Match(Top))
    /\ StripStar(Top.text[Match(Top) + 1].name) \in _SKIP_ENVS

\* token j (1-based) of text begins, or ends, an environment named name
Delimits(text, j, k, name) ==
    text[j].k = k /\ StripStar(text[j].name) = name

\* 0-based index after the end directive that matches the begin at 0-based
\* index m: the first end of the name with as many begins as ends of the
\* name between; the end of the text when there is none
AfterMatchingEnd(text, m) ==
    LET name == StripStar(text[m + 1].name)
        Between(k, e) ==
            Cardinality({j \in (m + 2)..(e - 1) : Delimits(text, j, k, name)})
        E == {e \in (m + 2)..Len(text) :
                 /\ Delimits(text, e, "end", name)
                 /\ Between("begin", e) = Between("end", e)}
    IN IF E = {} THEN Len(text) ELSE Min(E)

Added == SubSeq(tlist, Len(tgiven) + 1, Len(tlist))

\* the i-th smallest member of a set of numbers
Nth(S, i) == CHOOSE x \in S : Cardinality({y \in S : y <= x}) = i

\* the cleaned text of the caption directive at 0-based index c: the content
\* of its braced argument, <<>> when it has none
CaptionText(c) ==
    IF CaptionBrace(tbody, c) = -1 THEN <<>>
    ELSE Strip(_clean_text(_extract_braced(tbody,
                                           CaptionBrace(tbody, c)).content))

\* 0-based indices of the caption directives with non-empty cleaned text
CaptionDirectives ==
    {c \in 0..(Len(tbody) - 1) :
        tbody[c + 1].k = "caption" /\ CaptionText(c) # <<>>}

\* 0-based indices of the begins of tabular-like environments
TabularBegins ==
    {j \in 0..(Len(tbody) - 1) :
        tbody[j + 1].k = "begin" /\ tbody[j + 1].name \in TabularNames}

\* number of Table elements appended: they stand first
Tables == IF Added # <<>> /\ Added[1].kind = "Table" THEN 1 ELSE 0

\* C23: _parse_table_env appends at most one Table element, first, and only
\* when the body holds a tabular-like environment; then one Table_caption
\* per caption directive with non-empty cleaned text, in source order; then
\* at most one more Table_caption, the trailing notes; no element of another
\* kind; and the elements the list held stay as they were.
C23_EmissionOrder ==
    tpc = "done" =>
        /\ SubSeq(tlist, 1, Len(tgiven)) = tgiven
        /\ \A i \in 1..Len(Added) :
              /\ Added[i].kind \in {"Table", "Table_caption"}
              /\ Added[i].kind = "Table" => i = 1
        /\ Tables = 1 => TabularBegins # {}
        /\ Len(Added) - Tables - Cardinality(CaptionDirectives) \in {0, 1}
        /\ \A i \in 1..Cardinality(CaptionDirectives) :
              Added[Tables + i] =
                 Element("Table_caption", <<>>,
                         CaptionText(Nth(CaptionDirectives, i)))

\* a Table, two captions and the notes were appended to a list that held a
\* paragraph
C23_Witness ==
    /\ tpc = "done"
    /\ tgiven # <<>>
    /\ Len(Added) = 4
    /\ Added[1].kind = "Table"
    /\ Cardinality(CaptionDirectives) = 2
    /\ Added[2] # Added[3]


\* the call appended a trailing-notes caption: one element more than the
\* Table and the captions of the directives
HasNotes == Len(Added) - Tables - Cardinality(CaptionDirectives) = 1

Notes == Added[Len(Added)]

\* 1-based index of the end directive that closes the first tabular-like
\* environment; the length of the body when nothing closes it
ClosingEnd == AfterMatchingEnd(tbody, Min(TabularBegins))

\* C24: the trailing notes are built only from text that stands after the
\* end directive closing the tabular environment that gave the Table: no
\* word of a row or cell of that tabular is in the notes, a tabular nested
\* in it or not.
C24_NotesAfterTabular ==
    (tpc = "done" /\ Tables = 1 /\ HasNotes) =>
        \A id \in WordsOf(Notes) : id > ClosingEnd


\* 1-based index of the first token of this kind after index j (the
\* arguments of the table bodies hold no nested group)
Close(text, j, kind) ==
    Min({k \in (j + 1)..Len(text) : text[k].k = kind} \cup {Len(text)})

\* number of mandatory arguments of the begin of a tabular-like environment:
\* the column specification, after a width for tabularx and tabular*
Arity(name) == IF name = "tabular" THEN 1 ELSE 2

\* 1-based index of the last token of the brace groups, n at most, that
\* follow index j directly
RECURSIVE AfterArgs(_, _, _)
AfterArgs(text, j, n) ==
    IF n = 0 \/ j >= Len(text) \/ text[j + 1].k # "lbrace" THEN j
    ELSE AfterArgs(text, Close(text, j + 1, "rbrace"), n - 1)

\* 1-based index of the last token of the begin of the first tabular-like
\* environment with its position argument and its mandatory arguments
HeaderEnd ==
    LET b == Min(TabularBegins) + 1
        o == IF b < Len(tbody) /\ tbody[b + 1].k = "lbrack"
             THEN Close(tbody, b + 1, "rbrack") ELSE b
    IN  AfterArgs(tbody, o, Arity(tbody[b].name))

\* C25: the position argument and the column specification of the tabular,
\* tabularx or tabular* environment are skipped: the Table text holds words
\* of the body only, never a word of the arguments of the begin, a width
\* before the column specification or not.
C25_NoColumnSpec ==
    (tpc = "done" /\ Tables = 1) =>
        \A id \in WordsOf(Added[1]) : id > HeaderEnd


\* ids of the prose words of a caption directive's cleaned text
CaptionWords(c) ==
    {CaptionText(c)[i].id :
        i \in {j \in 1..Len(CaptionText(c)) : CaptionText(c)[j].k = "word"}}

\* C30: every caption directive of a table body gives its text to exactly one
\* Table_caption element, whether it stands before or after the tabular
\* environment: each word of its cleaned text is in one appended element,
\* never a second time in the trailing notes.
C30_CaptionOnce ==
    tpc = "done" =>
        \A c \in CaptionDirectives : \A id \in CaptionWords(c) :
            Cardinality({i \in 1..Len(Added) : id \in WordsOf(Added[i])}) = 1


(***************************************************************************)
(* Properties of _extract_braced.                                          *)
(***************************************************************************)
\* the character at 0-based index j stands right after a backslash that is
\* not itself escaped, counting from pos
RECURSIVE Escaped(_, _, _)
Escaped(text, pos, j) ==
    j > pos /\ text[j] = "\\" /\ ~Escaped(text, pos, j - 1)

\* the braces of this kind that count, from pos up to 0-based index j
Braces(text, pos, j, c) ==
    {k \in pos..j : text[k + 1] = c /\ ~Escaped(text, pos, k)}

\* 0-based indices of the closing braces at which the depth is back to zero
Matching(text, pos) ==
    {i \in (pos + 1)..(Len(text) - 1) :
        /\ text[i + 1] = "}" /\ ~Escaped(text, pos, i)
        /\ Cardinality(Braces(text, pos, i, "{")) =
              Cardinality(Braces(text, pos, i, "}"))}

AtOpenBrace == bpos < Len(btext) /\ btext[bpos + 1] = "{"

KeptBlock(b, boxes) ==
    /\ b.btype = 0
    /\ \A j \in 1..Len(boxes) : ~(b.y1 > boxes[j].y0 /\ b.y0 < boxes[j].y1)

\* the texts of the kept blocks in provider order
RECURSIVE KeptText(_, _)
KeptText(blocks, boxes) ==
    IF blocks = <<>> THEN <<>>
    ELSE (IF KeptBlock(Head(blocks), boxes) THEN Head(blocks).text ELSE <<>>)
         \o KeptText(Tail(blocks), boxes)

\* C27: the text of a page holds the text of a block exactly when the block
\* is a text block and no detected table box overlaps it (block.y1 > box.y0
\* and block.y0 < box.y1), the kept blocks in provider order; when the table
\* detector fails on the page nothing is raised and the text is the one for
\* no table box at all.
C27_BlockFilter ==
    /\ \A k \in 1..Len(raw_parts) :
          LET page == LoadPage(doc, page_range[k])
          IN  raw_parts[k] =
                 KeptText(page.blocks,
                          IF page.detector_fails THEN <<>> ELSE page.tables)
    /\ xpc = "IndexError" => OutOfRange(xerr[1], Len(doc))
    /\ xpc = "returned" => Len(raw_parts) = Len(page_range)

\* a page with a table box gave its text: a block inside the box and a
\* picture were dropped, a block that touches the box from above was kept
C27_Witness ==
    /\ xpc = "returned"
    /\ Len(doc) = 1
    /\ ~doc[1].detector_fails
    /\ doc[1].tables = <<Rect(1, 2)>>
    /\ Len(doc[1].blocks) = 3
    /\ \E j \in 1..3 : doc[1].blocks[j].btype = 1
    /\ raw_parts = <<<<"a", "\n">>>>


(***************************************************************************)
(* Properties of the un-escaping of _clean_text.                           *)
(***************************************************************************)
\* the backslash at position i starts an escape: it is not itself the
\* character that a backslash before it escapes
RECURSIVE StartsEscape(_, _)
StartsEscape(t, i) ==
    t[i] = "\\" /\ ~(i > 1 /\ StartsEscape(t, i - 1))

\* positions of the special character c behind a backslash that escapes it
EscapedAt(t, c) ==
    {i \in 2..Len(t) : t[i] = c /\ StartsEscape(t, i - 1)}

\* positions of the character c
Occurs(t, c) == {i \in 1..Len(t) : t[i] = c}

\* a text without mathematics: every dollar sign is escaped and there is no
\* environment
NoMath(t) ==
    /\ Occurs(t, "$") = EscapedAt(t, "$")
    /\ Occurs(t, "begin") = {}

\* C28: _clean_text un-escapes the escaped special characters: every
\* backslash followed by one of % $ & # _ { } | < > gives that character in
\* the output, several escaped dollar signs on a line and escaped braces
\* included; so the output of a text without mathematics holds each special
\* character at least as often as the input holds it escaped.
C28_Unescaped ==
    (cpc = "done" /\ centry = "clean" /\ NoMath(ctext)) =>
        \A c \in Specials :
            Cardinality(Occurs(cvalues[1], c)) >=
                Cardinality(EscapedAt(ctext, c))


(***************************************************************************)
(* Properties of the appendix switch.                                      *)
(***************************************************************************)
\* position in the main file of the prose word with this id
RawPos(id) == CHOOSE j \in 1..Len(raw) : raw[j] = Word(id)

\* the main file holds \appendix between the two words
AcrossAppendix(a, b) ==
    \E j \in RawPos(a)..RawPos(b) : raw[j] = AppendixTok

\* C29: the appendix switch flushes the buffered prose: the prose met before
\* \appendix is emitted at that point and the buffer is empty afterwards, so
\* no Paragraph element holds a word that stands before an \appendix and a
\* word that stands after it.
C29_AppendixFlushes ==
    \A i \in 1..Len(elements) :
        elements[i].kind = "Paragraph" =>
            \A a \in WordsOf(elements[i]), b \in WordsOf(elements[i]) :
                (a <= Len(raw) /\ b <= Len(raw)) => ~AcrossAppendix(a, b)

====
